---------------------------- MODULE Spec2Model ----------------------------
(***************************************************************************)
(* Model of the generate / execute / repair loop of the Personal AI        *)
(* Assistant backend:                                                      *)
(*   backend/app/agents/multi_agent_orchestrator.py  (Iteration Controller)*)
(*   backend/app/services/sandbox_services.py        (Execution Driver)    *)
(*   backend/app/agents/code_specialist_agent.py     (Generation Driver)   *)
(*   backend/app/agents/router_agent.py              (Task Router)         *)
(*                                                                         *)
(* A run is one call of MultiAgentOrchestrator.process().  Every run owns  *)
(* its AgentState dict (state[r]) and the locals of the coroutine frames   *)
(* it is in (loc[r], ex[r]); the E2B sandboxes, the local workspace        *)
(* directory, the wall clock and the service's api key are shared.         *)
(* Keys of a Python dict that are read with .get(key, default) are         *)
(* modelled by a field that holds the default while the key is absent.     *)
(*                                                                         *)
(* The functions that turn text into data (the output parser and project   *)
(* classifier of generate_code, the router's classify_task and the project *)
(* name of _extract_project_name) are modelled on sequences of characters  *)
(* and have specifications of their own (SpecGenerate, SpecRouter,         *)
(* SpecName), each for a single call on an input of a bounded set.         *)
(*                                                                         *)
(* Spec has one run at a time; SpecTwo has two runs on the one event loop, *)
(* which change places where a coroutine can be suspended.                 *)
(***************************************************************************)
EXTENDS Integers, Sequences, FiniteSets, TLC

(***************************************************************************)
(* Bounds of the model.                                                    *)
(***************************************************************************)
\* largest max_iterations a caller passes to process()
MaxIter == 2
\* most headings in the files section of a generator's answer
MaxFiles == 2
\* most words in a user message a project name is derived from
MaxWords == 5
\* the wall clock (seconds) runs from 1 to MaxClock
MaxClock == 2

(***************************************************************************)
(* Values.                                                                 *)
(***************************************************************************)
\* Python's None for text valued fields
None == "None"
\* port: None
NoPort == 0
\* server_url: None
NoUrl == <<>>

\* the runs (process() calls) a behaviour may hold
RunIds == {"r1", "r2"}

\* str(e) / str(execution.error) of the collaborators
ErrorTexts == {"", "e1"}
\* execution.text of a script that ran
OutTexts == {"", "out"}

\* categories the router's LLM may answer (any lower-cased text)
TaskTypes == {"coding", "desktop", "web", "general", "other"}

\* user messages, as sequences of characters
Messages == { <<"M", "a", "k", "e", " ", "a", " ", "a", "p", "i">> }

\* what the caller passes as message_callback: nothing, or a subscriber,
\* which returns or raises when it is handed an event
Callbacks == {"none", "subscriber"}

(***************************************************************************)
(* Project configurations: the dicts _detect_project_config and            *)
(* _handle_single_file return, by project type.                            *)
(***************************************************************************)
ProjectTypes ==
  {"react", "express", "node", "flask", "fastapi", "python", "javascript",
   "unknown"}

\* the project types the generated projects of the model have: two servers
\* with an install step, a script with one, a script without, and a project
\* without start command
GeneratedTypes == {"react", "express", "node", "python", "unknown"}

DetectProjectConfig(ptype) ==
  CASE ptype = "react" ->
         [project_type |-> "react", is_server |-> TRUE,
          start_command |-> "npm start", install_command |-> "npm install",
          port |-> 5555]
    [] ptype = "express" ->
         [project_type |-> "express", is_server |-> TRUE,
          start_command |-> "node index.js", install_command |-> "npm install",
          port |-> 5555]
    [] ptype = "node" ->
         [project_type |-> "node", is_server |-> FALSE,
          start_command |-> "node index.js", install_command |-> "npm install",
          port |-> NoPort]
    [] ptype = "flask" ->
         [project_type |-> "flask", is_server |-> TRUE,
          start_command |-> "python app.py",
          install_command |-> "pip install -r requirements.txt",
          port |-> 5000]
    [] ptype = "fastapi" ->
         [project_type |-> "fastapi", is_server |-> TRUE,
          start_command |-> "uvicorn main:app --port 8100",
          install_command |-> "pip install -r requirements.txt",
          port |-> 8100]
    [] ptype = "python" ->
         [project_type |-> "python", is_server |-> FALSE,
          start_command |-> "python main.py", install_command |-> None,
          port |-> NoPort]
    [] ptype = "javascript" ->
         [project_type |-> "javascript", is_server |-> FALSE,
          start_command |-> "node index.js", install_command |-> None,
          port |-> NoPort]
    [] OTHER ->
         [project_type |-> "unknown", is_server |-> FALSE,
          start_command |-> None, install_command |-> None,
          port |-> NoPort]


(***************************************************************************)
(* Workspace paths.  str(project_dir) is modelled by the directory it      *)
(* names: the project name and the timestamp suffix (0: no suffix).        *)
(***************************************************************************)
\* the key "project_path" is absent, or holds None
AbsentPath == [kind |-> "absent", name |-> <<>>, ts |-> 0]
\* the "" _save_to_workspace returns when it failed
EmptyPath == [kind |-> "empty", name |-> <<>>, ts |-> 0]
DirPath(name, ts) == [kind |-> "dir", name |-> name, ts |-> ts]
\* Python truthiness of a path value
PathTruthy(p) == p.kind = "dir"

(***************************************************************************)
(* State.                                                                  *)
(***************************************************************************)
VARIABLES
  runs,       \* the runs of this behaviour (a subset of RunIds)
  pc,         \* pc[r]: where run r stands in process()
  state,      \* state[r]: the AgentState dict of run r
  loc,        \* loc[r]: locals of process/_code_specialist_node/_generate_code
  ex,         \* ex[r]: locals of the execute_project frame of run r
  result,     \* result[r]: the dict process() returned
  sandboxes,  \* status of every E2B sandbox created so far, by sandbox id
  workspace,  \* directories that exist under workspace_path
  now,        \* the wall clock, in seconds
  api_key,    \* EnhancedSandboxService.api_key is set
  obs,        \* obs[r]: collaborator calls and events of run r (observation)
  saves,      \* every _save_to_workspace call that wrote files (observation)
  gen,        \* a generate_code call: the generator's answer and the result
  route,      \* a classify_task call: message, the LLM's answer, the decision
  naming      \* an _extract_project_name call: the message and the name

\* the calls of the generation driver, the router and the slug function
\* that are looked at on their own
calls == <<gen, route, naming>>

vars ==
  <<runs, pc, state, loc, ex, result, sandboxes, workspace, now, api_key,
    obs, saves, calls>>

\* an ExecutionOutcome dict; absent keys hold the default their readers use
Outcome(success, stdout, stderr, started, url, port, path) ==
  [success |-> success, stdout |-> stdout, stderr |-> stderr,
   server_started |-> started, server_url |-> url, server_port |-> port,
   project_path |-> path]

NoOutcome == Outcome(FALSE, "", "", FALSE, NoUrl, NoPort, AbsentPath)

\* locals of execute_project before the call
NoFrame ==
  [sandbox |-> 0, is_server |-> "unbound", project_path |-> AbsentPath,
   probe |-> "not_run", launched |-> None, ret |-> NoOutcome,
   raised |-> None]

\* a final_output text, by the parts it is put together from: the summary
\* line, then the server url, project path and error lines it may carry
Output(summary, url, path, error) ==
  [summary |-> summary, server_url |-> url, project_path |-> path,
   error |-> error]

\* state.get("final_output", "")
NoOutput == Output("", NoUrl, AbsentPath, None)

\* process(): initial_state
InitialState(msg, maxit) ==
  [user_message |-> msg, task_type |-> None, iteration |-> 1,
   max_iterations |-> maxit, execution_results |-> <<>>, agent_path |-> <<>>,
   project_path |-> AbsentPath,
   \* keys that are absent until a node sets them
   files |-> 0, project_type |-> None, start_command |-> None,
   install_command |-> None, server_port |-> NoPort, server_url |-> NoUrl,
   server_running |-> FALSE, success |-> FALSE, error_message |-> None,
   final_output |-> NoOutput, total_iterations |-> 0, generated_code |-> <<>>]

NoState == InitialState(<<>>, 0)

NoLocals ==
  [callback |-> "none", max_iterations |-> 0, final_success |-> FALSE,
   project_name |-> <<>>, iteration |-> 0, exec_result |-> NoOutcome]

NoObs ==
  [routerCalls |-> 0, genCalls |-> <<>>, execCalls |-> 0, events |-> <<>>,
   exception |-> None, responses |-> <<>>]

NoResult == [returned |-> FALSE, success |-> FALSE, output |-> NoOutput,
             error |-> None, total_iterations |-> 0,
             execution_results |-> <<>>, project_path |-> AbsentPath,
             server_url |-> NoUrl]

InitWith(rs) ==
  /\ runs = rs
  /\ pc = [r \in RunIds |-> "idle"]
  /\ state = [r \in RunIds |-> NoState]
  /\ loc = [r \in RunIds |-> NoLocals]
  /\ ex = [r \in RunIds |-> NoFrame]
  /\ result = [r \in RunIds |-> NoResult]
  /\ sandboxes = <<>>
  /\ workspace \in {{}} \cup {{DirPath(m, 0)} : m \in {<<"a", "p", "i">>}}
  /\ now = 1
  /\ api_key \in BOOLEAN
  /\ obs = [r \in RunIds |-> NoObs]
  /\ saves = <<>>



(***************************************************************************)
(* _extract_project_name: the slug of a user message.                      *)
(***************************************************************************)
UpperCase ==
  <<"A", "B", "C", "D", "E", "F", "G", "H", "I", "J", "K", "L", "M", "N",
    "O", "P", "Q", "R", "S", "T", "U", "V", "W", "X", "Y", "Z">>
LowerCase ==
  <<"a", "b", "c", "d", "e", "f", "g", "h", "i", "j", "k", "l", "m", "n",
    "o", "p", "q", "r", "s", "t", "u", "v", "w", "x", "y", "z">>
Digits == {"0", "1", "2", "3", "4", "5", "6", "7", "8", "9"}

\* str.lower(), one character
LowerChar(c) ==
  IF \E i \in 1..Len(UpperCase) : UpperCase[i] = c
  THEN LowerCase[CHOOSE i \in 1..Len(UpperCase) : UpperCase[i] = c]
  ELSE c

\* str.lower()
Lower(s) == [i \in 1..Len(s) |-> LowerChar(s[i])]

\* the regular expression class \w
IsWordChar(c) ==
  \/ \E i \in 1..Len(LowerCase) : LowerCase[i] = c
  \/ \E i \in 1..Len(UpperCase) : UpperCase[i] = c
  \/ c \in Digits
  \/ c = "_"

\* s[i:].startswith(pat)
MatchesAt(s, i, pat) ==
  /\ i + Len(pat) - 1 <= Len(s)
  /\ SubSeq(s, i, i + Len(pat) - 1) = pat

\* str.replace(pat, rep) from position i on: the non-overlapping occurrences
\* of the non-empty pat, left to right
RECURSIVE ReplaceFrom(_, _, _, _)
ReplaceFrom(s, i, pat, rep) ==
  IF i > Len(s) THEN <<>>
  ELSE IF MatchesAt(s, i, pat)
       THEN rep \o ReplaceFrom(s, i + Len(pat), pat, rep)
       ELSE <<s[i]>> \o ReplaceFrom(s, i + 1, pat, rep)

Replace(s, pat, rep) == ReplaceFrom(s, 1, pat, rep)

\* remove_words of _extract_project_name, in order
RemoveWords ==
  << <<"c", "r", "e", "a", "t", "e">>, <<"b", "u", "i", "l", "d">>,
     <<"m", "a", "k", "e">>, <<"a">>, <<"a", "n">>, <<"t", "h", "e">>,
     <<"a", "p", "p">>,
     <<"a", "p", "p", "l", "i", "c", "a", "t", "i", "o", "n">>,
     <<"p", "r", "o", "j", "e", "c", "t">> >>

\* the three replace calls of one pass of the loop over remove_words
RemoveWord(msg, word) ==
  LET m1 == Replace(msg, <<" ">> \o word \o <<" ">>, <<" ">>)
      m2 == Replace(m1, word \o <<" ">>, <<>>)
  IN  Replace(m2, <<" ">> \o word, <<>>)

RECURSIVE RemoveAll(_, _)
RemoveAll(msg, k) ==
  IF k > Len(RemoveWords) THEN msg
  ELSE RemoveAll(RemoveWord(msg, RemoveWords[k]), k + 1)

\* re.findall(r'\w+', s) from position i on, cur being the word in progress
RECURSIVE FindWords(_, _, _)
FindWords(s, i, cur) ==
  IF i > Len(s) THEN (IF cur = <<>> THEN <<>> ELSE <<cur>>)
  ELSE IF IsWordChar(s[i]) THEN FindWords(s, i + 1, Append(cur, s[i]))
       ELSE (IF cur = <<>> THEN <<>> ELSE <<cur>>) \o FindWords(s, i + 1, <<>>)

\* '-'.join(parts)
RECURSIVE JoinHyphen(_)
JoinHyphen(parts) ==
  IF parts = <<>> THEN <<>>
  ELSE IF Len(parts) = 1 THEN parts[1]
       ELSE parts[1] \o <<"-">> \o JoinHyphen(Tail(parts))

\* seq[:n]
Prefix(seq, n) == SubSeq(seq, 1, IF Len(seq) < n THEN Len(seq) ELSE n)

ExtractProjectName(user_message) ==
  LET words == FindWords(RemoveAll(Lower(user_message), 1), 1, <<>>)
  IN  IF words # <<>>
      THEN Prefix(JoinHyphen(Prefix(words, 3)), 30)
      ELSE <<"m", "y", "-", "p", "r", "o", "j", "e", "c", "t">>

(***************************************************************************)
(* Text: Python strings are sequences of characters (one-character         *)
(* strings); an Optional[str] is the empty sequence (None) or the sequence *)
(* of one text.                                                            *)
(***************************************************************************)
\* the character ` (U+0060), three of which make a code fence
Backtick == "BACKTICK"

\* whitespace of str.strip() and of the regular expression class \s
IsSpace(c) == c \in {" ", "\n", "\t", "\r"}

RECURSIVE LStrip(_)
LStrip(s) == IF s # <<>> /\ IsSpace(Head(s)) THEN LStrip(Tail(s)) ELSE s

RECURSIVE RStrip(_)
RStrip(s) ==
  IF s # <<>> /\ IsSpace(s[Len(s)])
  THEN RStrip(SubSeq(s, 1, Len(s) - 1))
  ELSE s

\* str.strip()
Strip(s) == RStrip(LStrip(s))

\* "pat in s"
Contains(s, pat) ==
  \E i \in 1..(Len(s) - Len(pat) + 1) : MatchesAt(s, i, pat)

\* s.startswith(pat), s.endswith(pat)
StartsWith(s, pat) == MatchesAt(s, 1, pat)
EndsWith(s, pat) ==
  Len(pat) <= Len(s) /\ MatchesAt(s, Len(s) - Len(pat) + 1, pat)

Least(S) == CHOOSE x \in S : \A y \in S : x <= y
Greatest(S) == CHOOSE x \in S : \A y \in S : x >= y

\* the first position from i on where pat occurs in s, Len(s) + 1 when it
\* does not occur
RECURSIVE Find(_, _, _)
Find(s, i, pat) ==
  IF i > Len(s) THEN Len(s) + 1
  ELSE IF MatchesAt(s, i, pat) THEN i
  ELSE Find(s, i + 1, pat)

\* the first position from i on that holds no whitespace (greedy \s*)
RECURSIVE SkipSpace(_, _)
SkipSpace(s, i) ==
  IF i > Len(s) \/ ~IsSpace(s[i]) THEN i ELSE SkipSpace(s, i + 1)

\* the first position from i on that holds no word character (greedy \w*)
RECURSIVE SkipWord(_, _)
SkipWord(s, i) ==
  IF i > Len(s) \/ ~IsWordChar(s[i]) THEN i ELSE SkipWord(s, i + 1)

\* str.split(sep) for a separator of one character
RECURSIVE Split(_, _)
Split(s, sep) ==
  LET j == Find(s, 1, <<sep>>)
  IN  IF j > Len(s) THEN <<s>>
      ELSE <<SubSeq(s, 1, j - 1)>> \o Split(SubSeq(s, j + 1, Len(s)), sep)

(***************************************************************************)
(* _parse_multi_file_output.  A dict of files is the sequence of its       *)
(* items in insertion order; a structure tree is the set of its nodes,     *)
(* each with its path of keys from the root and its kind.                  *)
(***************************************************************************)
\* the keywords that end the files section (matched ignoring case)
SectionEnds ==
  { <<"s", "t", "r", "u", "c", "t", "u", "r", "e", ":">>,
    <<"s", "e", "t", "u", "p", ":">>, <<"r", "u", "n", ":">> }

\* re.search(r'FILES:(.*?)(?:STRUCTURE:|SETUP:|RUN:|$)', output,
\* re.DOTALL | re.IGNORECASE): group 1 of the leftmost match; "$" matches at
\* the end and before a newline that ends the text
FilesSection(output) ==
  LET low == Lower(output)
      start == Find(low, 1, <<"f", "i", "l", "e", "s", ":">>)
      from == start + 6
      stops == {j \in from..(Len(low) + 1) :
                  \/ j = Len(low) + 1
                  \/ \E kw \in SectionEnds : MatchesAt(low, j, kw)
                  \/ j = Len(low) /\ low[j] = "\n"}
  IN  IF start > Len(low) THEN [found |-> FALSE, text |-> <<>>]
      ELSE [found |-> TRUE, text |-> SubSeq(output, from, Least(stops) - 1)]

Dashes == <<"-", "-", "-">>

\* the lengths of "([^\n]+?)" at h that let "\s*---\n" match behind it
HeaderLengths(s, h) ==
  {k \in 1..(Find(s, h, <<"\n">>) - h) :
     MatchesAt(s, SkipSpace(s, h + k), Dashes \o <<"\n">>)}

NoMatch == [matched |-> FALSE, filepath |-> <<>>, content |-> <<>>, end |-> 0]

\* the match of r'---\s*([^\n]+?)\s*---\n(.*?)(?=---|\Z)' (re.DOTALL) that
\* starts at i: the greedy "\s*" gives back characters until the lazy group
\* finds its shortest length; the content runs up to the next "---" or the
\* end of the text
FileMatchAt(s, i) ==
  IF ~MatchesAt(s, i, Dashes) THEN NoMatch
  ELSE LET starts == {h \in (i + 3)..SkipSpace(s, i + 3) :
                        HeaderLengths(s, h) # {}}
       IN  IF starts = {} THEN NoMatch
           ELSE LET h == Greatest(starts)
                    k == Least(HeaderLengths(s, h))
                    c == SkipSpace(s, h + k) + 4
                    e == Find(s, c, Dashes)
                IN  [matched |-> TRUE, filepath |-> SubSeq(s, h, h + k - 1),
                     content |-> SubSeq(s, c, e - 1), end |-> e]

\* re.findall(file_pattern, files_section, re.DOTALL) from position p on
RECURSIVE FindFiles(_, _)
FindFiles(s, p) ==
  LET i == Find(s, p, Dashes)
      m == FileMatchAt(s, i)
  IN  IF i > Len(s) THEN <<>>
      ELSE IF m.matched THEN <<m>> \o FindFiles(s, m.end)
      ELSE FindFiles(s, i + 1)

\* "files[filepath] = content" on a dict in insertion order
DictSet(files, filepath, content) ==
  IF \E i \in 1..Len(files) : files[i].path = filepath
  THEN [i \in 1..Len(files) |->
          IF files[i].path = filepath
          THEN [path |-> filepath, content |-> content]
          ELSE files[i]]
  ELSE Append(files, [path |-> filepath, content |-> content])

\* list(files.keys())
Keys(files) == [i \in 1..Len(files) |-> files[i].path]

\* the file names that make a file the main file
MainNames ==
  { <<"a", "p", "p", ".", "p", "y">>, <<"m", "a", "i", "n", ".", "p", "y">>,
    <<"i", "n", "d", "e", "x", ".", "j", "s">>,
    <<"a", "p", "p", ".", "j", "s">>,
    <<"s", "e", "r", "v", "e", "r", ".", "j", "s">> }

\* any(name in filepath.lower() for name in [...])
IsMainName(filepath) ==
  \E name \in MainNames : Contains(Lower(filepath), name)

\* the loop over the matches, from match k on: paths and contents are
\* stripped, backslashes become slashes, a later entry of a path replaces
\* the earlier one, and the first entry with a main name is the main file
RECURSIVE StoreFiles(_, _, _)
StoreFiles(matches, k, acc) ==
  IF k > Len(matches) THEN acc
  ELSE LET filepath == Replace(Strip(matches[k].filepath), <<"\\">>, <<"/">>)
           content == Strip(matches[k].content)
       IN  StoreFiles(matches, k + 1,
             [files |-> DictSet(acc.files, filepath, content),
              main_file |->
                IF acc.main_file = <<>> /\ IsMainName(filepath)
                THEN <<filepath>> ELSE acc.main_file])

\* the kind of the node at a path of keys, "absent" when there is none
Kind(nodes, path) ==
  IF \E n \in nodes : n.path = path
  THEN (CHOOSE n \in nodes : n.path = path).kind
  ELSE "absent"

\* p is a prefix of q
IsPrefix(p, q) == Len(p) <= Len(q) /\ SubSeq(q, 1, Len(p)) = p

\* the inner loop of _build_file_tree from part i on.  The last part is
\* assigned "file", which replaces a directory of that name with all it
\* holds; a part before it becomes a directory unless it is there already.
\* When a part before the last names a "file", "current" is that str and
\* the next pass raises TypeError (item assignment or indexing on a str).
RECURSIVE AddPath(_, _, _)
AddPath(tree, parts, i) ==
  LET here == SubSeq(parts, 1, i)
  IN  IF i = Len(parts)
      THEN [tree EXCEPT !.nodes =
              {n \in @ : ~IsPrefix(here, n.path)}
              \cup {[path |-> here, kind |-> "file"]}]
      ELSE IF Kind(tree.nodes, here) = "file"
      THEN [tree EXCEPT !.raised = TRUE]
      ELSE AddPath([tree EXCEPT !.nodes =
                      @ \cup {[path |-> here, kind |-> "dir"]}],
                   parts, i + 1)

\* _build_file_tree: the loop over the file paths, from path k on
RECURSIVE BuildFrom(_, _, _)
BuildFrom(filepaths, k, tree) ==
  IF k > Len(filepaths) \/ tree.raised THEN tree
  ELSE BuildFrom(filepaths, k + 1,
                 AddPath(tree, Split(filepaths[k], "/"), 1))

BuildFileTree(filepaths) ==
  BuildFrom(filepaths, 1, [raised |-> FALSE, nodes |-> {}])

\* what _parse_multi_file_output returns when there is no files section
NoProject ==
  [raised |-> FALSE, files |-> <<>>, structure |-> {}, main_file |-> <<>>]

\* _parse_multi_file_output: the ParsedProject, or the TypeError of
\* _build_file_tree
ParseMultiFileOutput(output) ==
  LET section == FilesSection(output)
      stored == StoreFiles(FindFiles(section.text, 1), 1,
                           [files |-> <<>>, main_file |-> <<>>])
      tree == BuildFileTree(Keys(stored.files))
  IN  IF ~section.found THEN NoProject
      ELSE IF tree.raised THEN [NoProject EXCEPT !.raised = TRUE]
      ELSE [raised |-> FALSE, files |-> stored.files,
            structure |-> tree.nodes,
            main_file |->
              IF stored.main_file = <<>> /\ stored.files # <<>>
              THEN <<stored.files[1].path>>
              ELSE stored.main_file]

(***************************************************************************)
(* _detect_project_config and _handle_single_file.                         *)
(***************************************************************************)
\* "name in filenames", files[name]
HasFile(files, name) == \E i \in 1..Len(files) : files[i].path = name
FileContent(files, name) ==
  files[CHOOSE i \in 1..Len(files) : files[i].path = name].content

\* any(word in files[f].lower() for f in files)
AnyContentHas(files, word) ==
  \E i \in 1..Len(files) : Contains(Lower(files[i].content), word)

\* any(f.endswith(suffix) for f in filenames)
AnyPathEndsWith(files, suffix) ==
  \E i \in 1..Len(files) : EndsWith(files[i].path, suffix)

PackageJson == <<"p", "a", "c", "k", "a", "g", "e", ".", "j", "s", "o", "n">>

\* DetectProjectType looking at the contents before the manifest
DetectProjectTypeContentFirst(files) ==
  IF AnyContentHas(files, <<"f", "l", "a", "s", "k">>) THEN "flask"
  ELSE IF AnyContentHas(files, <<"f", "a", "s", "t", "a", "p", "i">>)
  THEN "fastapi"
  ELSE IF HasFile(files, PackageJson)
  THEN LET package_json == Lower(FileContent(files, PackageJson))
       IN  IF Contains(package_json, <<"r", "e", "a", "c", "t">>) THEN "react"
           ELSE IF Contains(package_json, <<"e", "x", "p", "r", "e", "s", "s">>)
           THEN "express"
           ELSE "node"
  ELSE IF AnyPathEndsWith(files, <<".", "p", "y">>) THEN "python"
  ELSE IF AnyPathEndsWith(files, <<".", "j", "s">>) THEN "javascript"
  ELSE "unknown"

\* the rules of _detect_project_config, in their order: the project type
\* whose dict the function returns
DetectProjectType(files) ==
  IF HasFile(files, PackageJson)
  THEN LET package_json == Lower(FileContent(files, PackageJson))
       IN  IF Contains(package_json, <<"r", "e", "a", "c", "t">>) THEN "react"
           ELSE IF Contains(package_json, <<"e", "x", "p", "r", "e", "s", "s">>)
           THEN "express"
           ELSE "node"
  ELSE IF AnyContentHas(files, <<"f", "l", "a", "s", "k">>) THEN "flask"
  ELSE IF AnyContentHas(files, <<"f", "a", "s", "t", "a", "p", "i">>)
  THEN "fastapi"
  ELSE IF AnyPathEndsWith(files, <<".", "p", "y">>) THEN "python"
  ELSE IF AnyPathEndsWith(files, <<".", "j", "s">>) THEN "javascript"
  ELSE "unknown"

\* a code fence
Fence == <<Backtick, Backtick, Backtick>>

\* _handle_single_file: the language the fence markers hint at
DetectLanguage(code_output) ==
  IF \/ Contains(code_output, Fence \o <<"j", "a", "v", "a", "s", "c", "r", "i", "p", "t">>)
     \/ Contains(code_output, Fence \o <<"j", "s">>)
  THEN "javascript"
  ELSE IF Contains(code_output, Fence \o <<"t", "y", "p", "e", "s", "c", "r", "i", "p", "t">>)
  THEN "typescript"
  ELSE "python"

\* the characters of a language name
LanguageChars(language) ==
  CASE language = "javascript" -> <<"j", "a", "v", "a", "s", "c", "r", "i", "p", "t">>
    [] language = "typescript" -> <<"t", "y", "p", "e", "s", "c", "r", "i", "p", "t">>
    [] OTHER -> <<"p", "y", "t", "h", "o", "n">>

\* f"main.{language[:2] if language != 'javascript' else 'js'}"
SingleFileName(language) ==
  <<"m", "a", "i", "n", ".">> \o (IF language # "javascript"
                                  THEN Prefix(LanguageChars(language), 2)
                                  ELSE <<"j", "s">>)

\* the ends of group 1 of r'```(?:\w+)?\n(.*?)\n```' for a match that
\* starts at i: the positions of a "\n```" behind the fence line
FenceEnds(s, i) ==
  LET j == SkipWord(s, i + 3)
  IN  IF MatchesAt(s, i, Fence) /\ j <= Len(s) /\ s[j] = "\n"
      THEN {e \in (j + 1)..Len(s) : MatchesAt(s, e, <<"\n">> \o Fence)}
      ELSE {}

\* re.search(r'```(?:\w+)?\n(.*?)\n```', code_output, re.DOTALL): group 1
\* of the leftmost match, or the whole text when nothing matches
ExtractCode(code_output) ==
  LET starts == {i \in 1..Len(code_output) : FenceEnds(code_output, i) # {}}
  IN  IF starts = {} THEN code_output
      ELSE LET i == Least(starts)
           IN  SubSeq(code_output, SkipWord(code_output, i + 3) + 1,
                      Least(FenceEnds(code_output, i)) - 1)

\* the keys of a project config that are absent from a result
NoConfig ==
  [project_type |-> None, is_server |-> FALSE, start_command |-> None,
   install_command |-> None, port |-> NoPort]

\* a generate_code result, from the parsed project and the project config
\* it takes its keys from; absent keys hold None
GenResult(success, error, project, config) ==
  [success |-> success, error |-> error, files |-> project.files,
   structure |-> project.structure, main_file |-> project.main_file,
   project_type |-> config.project_type, is_server |-> config.is_server,
   start_command |-> config.start_command,
   install_command |-> config.install_command, port |-> config.port]

\* the dict of the "except Exception as e" clause of generate_code
GenFailure(e) == GenResult(FALSE, e, NoProject, NoConfig)

NoGenResult == GenFailure(None)

\* _handle_single_file
HandleSingleFile(code_output) ==
  LET language == DetectLanguage(code_output)
      filename == SingleFileName(language)
  IN  GenResult(TRUE, None,
                [files |-> <<[path |-> filename,
                              content |-> ExtractCode(code_output)]>>,
                 structure |-> {[path |-> <<filename>>, kind |-> "file"]},
                 main_file |-> <<filename>>],
                [project_type |-> language, is_server |-> FALSE,
                 start_command |->
                   IF language = "python" THEN "python main.py"
                   ELSE IF language = "javascript" THEN "node main.js"
                   ELSE "node main.ty",
                 install_command |-> None, port |-> NoPort])

\* the characters of a path as one text
RECURSIVE Text(_)
Text(chars) == IF chars = <<>> THEN "" ELSE Head(chars) \o Text(Tail(chars))

\* the names the python rule looks for
PythonMainNames ==
  { <<"m", "a", "i", "n", ".", "p", "y">>, <<"a", "p", "p", ".", "p", "y">> }

\* "next((f for f in filenames if f in ['main.py', 'app.py']),
\* list(filenames)[0])": filenames is a set, whose order of iteration is
\* any; the first of the two names met is taken and, with neither in the
\* set, the first name of the set, whatever file that is
MainFileChoices(files) ==
  LET filenames == {files[i].path : i \in 1..Len(files)}
      named == filenames \cap PythonMainNames
  IN  IF named # {} THEN named ELSE filenames

\* _detect_project_config: the configurations it can return for a file
\* mapping; the python rule names its entry in the start command
DetectProjectConfigs(files) ==
  LET config == DetectProjectConfig(DetectProjectType(files))
  IN  IF config.project_type = "python"
      THEN {[config EXCEPT !.start_command = "python " \o Text(main_file)] :
              main_file \in MainFileChoices(files)}
      ELSE {config}

\* generate_code from the generator's answer on: the answer is an error the
\* collaborator raised, or a text, which is stripped and parsed; without
\* files the single file fallback is taken; an exception of the parser ends
\* in the "except" clause
GenerateCodeResults(answer) ==
  LET code_output == Strip(answer.text)
      parse_result == ParseMultiFileOutput(code_output)
  IN  IF answer.error # None THEN {GenFailure(answer.error)}
      ELSE IF parse_result.raised THEN {GenFailure("TypeError")}
      ELSE IF parse_result.files = <<>> THEN {HandleSingleFile(code_output)}
      ELSE {GenResult(TRUE, None, parse_result, config) :
              config \in DetectProjectConfigs(parse_result.files)}

(***************************************************************************)
(* RouterAgent.classify_task.  A float is the fraction num / den; the      *)
(* reasoning text of a decision, which only goes to the log, is left out.  *)
(***************************************************************************)
Number(num, den) == [num |-> num, den |-> den]

DigitChars == <<"0", "1", "2", "3", "4", "5", "6", "7", "8", "9">>

DigitValue(c) == (CHOOSE i \in 1..Len(DigitChars) : DigitChars[i] = c) - 1

\* the number a sequence of digits writes
RECURSIVE DigitsValue(_)
DigitsValue(s) ==
  IF s = <<>> THEN 0
  ELSE DigitsValue(SubSeq(s, 1, Len(s) - 1)) * 10 + DigitValue(s[Len(s)])

RECURSIVE PowerOfTen(_)
PowerOfTen(n) == IF n = 0 THEN 1 ELSE 10 * PowerOfTen(n - 1)

\* float(t) for a text t without exponent, "inf", "nan" or underscores: an
\* optional sign, digits and at most one point, with a digit somewhere;
\* anything else raises ValueError (ok = FALSE)
ParseFloat(t) ==
  LET signed == t # <<>> /\ t[1] \in {"-", "+"}
      body == IF signed THEN Tail(t) ELSE t
      point == Find(body, 1, <<".">>)
      whole == SubSeq(body, 1, point - 1)
      frac == SubSeq(body, point + 1, Len(body))
      digits == whole \o frac
  IN  IF digits # <<>> /\ \A i \in 1..Len(digits) : digits[i] \in Digits
      THEN [ok |-> TRUE,
            value |-> Number((IF signed /\ t[1] = "-" THEN -1 ELSE 1)
                               * DigitsValue(digits),
                             PowerOfTen(Len(frac)))]
      ELSE [ok |-> FALSE, value |-> Number(0, 1)]

\* line.split(":", 1)[1]
AfterColon(line) == SubSeq(line, Find(line, 1, <<":">>) + 1, Len(line))

\* _get_next_agent
GetNextAgent(task_type) ==
  CASE task_type = <<"c", "o", "d", "i", "n", "g">> -> "code_specialist"
    [] task_type = <<"d", "e", "s", "k", "t", "o", "p">> -> "desktop_specialist"
    [] task_type = <<"w", "e", "b">> -> "web_specialist"
    [] OTHER -> "general_assistant"

Decision(task_type, confidence) ==
  [task_type |-> task_type, confidence |-> confidence,
   next_agent |-> GetNextAgent(task_type)]

\* the loop over the lines of the answer, from line k on: the last
\* TASK_TYPE line and the last CONFIDENCE line count; a confidence that is
\* no float becomes 0.5
RECURSIVE ParseLines(_, _, _)
ParseLines(lines, k, acc) ==
  IF k > Len(lines) THEN acc
  ELSE LET line == lines[k]
           value == Strip(AfterColon(line))
       IN  ParseLines(lines, k + 1,
             IF StartsWith(line, <<"T", "A", "S", "K", "_", "T", "Y", "P", "E", ":">>)
             THEN [acc EXCEPT !.task_type = Lower(value)]
             ELSE IF StartsWith(line, <<"C", "O", "N", "F", "I", "D", "E", "N", "C", "E", ":">>)
             THEN [acc EXCEPT !.confidence =
                     IF ParseFloat(value).ok THEN ParseFloat(value).value
                     ELSE Number(5, 10)]
             ELSE acc)

\* the keyword lists of _fallback_classification
CodingKeywords ==
  { <<"w", "r", "i", "t", "e">>, <<"c", "o", "d", "e">>,
    <<"s", "c", "r", "i", "p", "t">>,
    <<"p", "r", "o", "g", "r", "a", "m">>,
    <<"f", "u", "n", "c", "t", "i", "o", "n">>,
    <<"p", "y", "t", "h", "o", "n">>,
    <<"j", "a", "v", "a", "s", "c", "r", "i", "p", "t">>,
    <<"j", "a", "v", "a">>, <<"a", "p", "i">>,
    <<"d", "e", "b", "u", "g">>,
    <<"e", "x", "e", "c", "u", "t", "e">>,
    <<"r", "u", "n", " ", "t", "h", "i", "s">>,
    <<"c", "o", "m", "p", "i", "l", "e">>,
    <<"t", "e", "s", "t">> }

DesktopKeywords ==
  { <<"o", "p", "e", "n">>, <<"c", "l", "i", "c", "k">>,
    <<"t", "y", "p", "e">>,
    <<"s", "c", "r", "e", "e", "n", "s", "h", "o", "t">>,
    <<"m", "o", "u", "s", "e">>,
    <<"k", "e", "y", "b", "o", "a", "r", "d">>,
    <<"w", "i", "n", "d", "o", "w">>, <<"a", "p", "p">>,
    <<"a", "p", "p", "l", "i", "c", "a", "t", "i", "o", "n">>,
    <<"l", "a", "u", "n", "c", "h">> }

WebKeywords ==
  { <<"s", "c", "r", "a", "p", "e">>,
    <<"w", "e", "b", "s", "i", "t", "e">>, <<"u", "r", "l">>,
    <<"w", "e", "a", "t", "h", "e", "r">>,
    <<"f", "e", "t", "c", "h">>,
    <<"d", "o", "w", "n", "l", "o", "a", "d">>,
    <<"b", "r", "o", "w", "s", "e">>,
    <<"w", "e", "b", " ", "p", "a", "g", "e">> }

\* any(kw in message_lower for kw in keywords)
AnyKeyword(message_lower, keywords) ==
  \E kw \in keywords : Contains(message_lower, kw)

\* FallbackClassification asking for desktop keywords first
FallbackClassificationDesktopFirst(message) ==
  LET message_lower == Lower(message)
  IN  IF AnyKeyword(message_lower, DesktopKeywords)
      THEN Decision(<<"d", "e", "s", "k", "t", "o", "p">>, Number(7, 10))
      ELSE IF AnyKeyword(message_lower, CodingKeywords)
      THEN Decision(<<"c", "o", "d", "i", "n", "g">>, Number(7, 10))
      ELSE IF AnyKeyword(message_lower, WebKeywords)
      THEN Decision(<<"w", "e", "b">>, Number(7, 10))
      ELSE Decision(<<"g", "e", "n", "e", "r", "a", "l">>, Number(5, 10))

\* _fallback_classification
FallbackClassification(message) ==
  LET message_lower == Lower(message)
  IN  IF AnyKeyword(message_lower, CodingKeywords)
      THEN Decision(<<"c", "o", "d", "i", "n", "g">>, Number(7, 10))
      ELSE IF AnyKeyword(message_lower, DesktopKeywords)
      THEN Decision(<<"d", "e", "s", "k", "t", "o", "p">>, Number(7, 10))
      ELSE IF AnyKeyword(message_lower, WebKeywords)
      THEN Decision(<<"w", "e", "b">>, Number(7, 10))
      ELSE Decision(<<"g", "e", "n", "e", "r", "a", "l">>, Number(5, 10))

\* classify_task from the LLM's answer on: when the collaborator raised,
\* the keyword classification of the message; else what the lines of the
\* stripped answer say, "general" and 0.5 where they say nothing
ClassifyTask(user_message, answer) ==
  IF answer.error # None THEN FallbackClassification(user_message)
  ELSE LET parsed == ParseLines(Split(Strip(answer.text), "\n"), 1,
                                [task_type |-> <<"g", "e", "n", "e", "r", "a", "l">>,
                                 confidence |-> Number(5, 10)])
       IN  Decision(parsed.task_type, parsed.confidence)

(***************************************************************************)
(* Progress events.                                                        *)
(***************************************************************************)
\* what "await message_callback(event)" can do for run r: "skip" when there
\* is no subscriber, else the subscriber returns or raises
EmitOutcomes(r) ==
  IF loc[r].callback = "none" THEN {"skip"} ELSE {"ok", "raise"}

\* obs after the event was handed to the subscriber
Emitted(r, o, type) ==
  IF o = "skip" THEN obs
  ELSE [obs EXCEPT ![r].events = Append(@, type),
                   ![r].exception =
                      IF o = "raise" THEN "SubscriberError" ELSE @]

(***************************************************************************)
(* process(): initial state and the router node.                           *)
(***************************************************************************)
Process(r) ==
  /\ r \in runs
  /\ pc[r] = "idle"
  /\ \E msg \in Messages, maxit \in 0..MaxIter, cb \in Callbacks,
        task_type \in TaskTypes :
       /\ state' = [state EXCEPT ![r] =
                      [InitialState(msg, maxit) EXCEPT
                         !.task_type = task_type,
                         !.agent_path = <<"router">>]]
       /\ loc' = [loc EXCEPT ![r] = [NoLocals EXCEPT !.callback = cb]]
  /\ obs' = [obs EXCEPT ![r].routerCalls = @ + 1]
  /\ pc' = [pc EXCEPT ![r] = "route"]
  /\ UNCHANGED <<calls, runs, ex, result, sandboxes, workspace, now, api_key, saves>>

\* _desktop_specialist_node
DesktopSpecialistNode(st) ==
  [st EXCEPT !.agent_path = Append(@, "desktop_specialist"),
             !.success = TRUE,
             !.final_output =
                Output("Desktop task (using existing skills)", NoUrl,
                       AbsentPath, None)]

\* _general_assistant_node
GeneralAssistantNode(st) ==
  [st EXCEPT !.agent_path = Append(@, "general_assistant"),
             !.success = TRUE,
             !.final_output =
                Output("General query (using existing LLM)", NoUrl,
                       AbsentPath, None)]

\* AgentFor sending the web category to the code specialist as well
AgentForWebAsCoding(task_type) ==
  IF task_type \in {"coding", "web"} THEN "code_specialist"
  ELSE IF task_type = "desktop" THEN "desktop_specialist"
  ELSE "general_assistant"

\* the node _route_to_agent picks for a task type
AgentFor(task_type) ==
  IF task_type = "coding" THEN "code_specialist"
  ELSE IF task_type = "desktop" THEN "desktop_specialist"
  ELSE "general_assistant"

\* _route_to_agent: the desktop and general nodes run to their end; the
\* code specialist node runs up to its loop
RouteToAgent(r) ==
  /\ pc[r] = "route"
  /\ LET agent == AgentFor(state[r].task_type) IN
       CASE agent = "code_specialist" ->
              /\ state' = [state EXCEPT ![r].agent_path =
                                          Append(@, "code_specialist")]
              /\ loc' = [loc EXCEPT
                           ![r].max_iterations = state[r].max_iterations,
                           ![r].final_success = FALSE,
                           ![r].project_name =
                              ExtractProjectName(state[r].user_message)]
              /\ pc' = [pc EXCEPT ![r] = "loop"]
         [] agent = "desktop_specialist" ->
              /\ state' = [state EXCEPT ![r] = DesktopSpecialistNode(@)]
              /\ pc' = [pc EXCEPT ![r] = "return"]
              /\ UNCHANGED loc
         [] OTHER ->
              /\ state' = [state EXCEPT ![r] = GeneralAssistantNode(@)]
              /\ pc' = [pc EXCEPT ![r] = "return"]
              /\ UNCHANGED loc
  /\ UNCHANGED <<calls, runs, ex, result, sandboxes, workspace, now, api_key, obs,
                 saves>>

(***************************************************************************)
(* _code_specialist_node: the loop.                                        *)
(***************************************************************************)
\* process() of run r ends by raising exception e
Raise(r, e) ==
  /\ pc' = [pc EXCEPT ![r] = "raised"]
  /\ obs' = [obs EXCEPT ![r].exception = e]

\* HasNextIteration with the range one too long
HasNextIterationOffByOne(iteration, max_iterations) ==
  iteration <= max_iterations

\* range(1, max_iterations + 1) holds a value after iteration (0: before
\* the first)
HasNextIteration(iteration, max_iterations) == iteration < max_iterations

\* "for iteration in range(1, max_iterations + 1)": the next pass, with its
\* "iteration" event, or the end of the range
IterationStart(r) ==
  /\ pc[r] = "loop"
  /\ IF HasNextIteration(loc[r].iteration, loc[r].max_iterations)
     THEN /\ loc' = [loc EXCEPT ![r].iteration = @ + 1]
          /\ state' = [state EXCEPT ![r].iteration = loc[r].iteration + 1]
          /\ \E o \in EmitOutcomes(r) :
               /\ obs' = Emitted(r, o, "iteration")
               /\ pc' = [pc EXCEPT ![r] =
                           IF o = "raise" THEN "raised" ELSE "gen_notify"]
     ELSE /\ pc' = [pc EXCEPT ![r] = "finalize"]
          /\ UNCHANGED <<loc, state, obs>>
  /\ UNCHANGED <<calls, runs, ex, result, sandboxes, workspace, now, api_key, saves>>

\* _generate_code: the "generating" / "fixing" event
GenerateNotify(r) ==
  /\ pc[r] = "gen_notify"
  /\ \E o \in EmitOutcomes(r) :
       /\ obs' = Emitted(r, o, IF state[r].iteration = 1
                                THEN "generating" ELSE "fixing")
       /\ pc' = [pc EXCEPT ![r] = IF o = "raise" THEN "raised" ELSE "gen_call"]
  /\ UNCHANGED <<calls, runs, state, loc, ex, result, sandboxes, workspace, now,
                 api_key, saves>>

\* PreviousError reading the wrong key of the last record
PreviousErrorFromStdout(st) ==
  IF st.iteration > 1 /\ st.execution_results # <<>>
  THEN st.execution_results[Len(st.execution_results)].stdout
  ELSE None

\* _generate_code: the previous_error handed to generate_code
PreviousError(st) ==
  IF st.iteration > 1 /\ st.execution_results # <<>>
  THEN st.execution_results[Len(st.execution_results)].stderr
  ELSE None

\* result["raw_output"]: the text the generator answered with, one text
\* for each type of generated project
RawOutput(ptype) ==
  CASE ptype = "react" -> <<"F", "I", "L", "E", "S", ":", "r">>
    [] ptype = "node" -> <<"F", "I", "L", "E", "S", ":", "n">>
    [] ptype = "python" -> <<"F", "I", "L", "E", "S", ":", "p">>
    [] OTHER -> <<"F", "I", "L", "E", "S", ":", "u">>

\* _generate_code: the state after a successful generation
GeneratedState(st, ptype, nfiles) ==
  LET cfg == DetectProjectConfig(ptype) IN
  [st EXCEPT !.files = nfiles,
             !.project_type = cfg.project_type,
             !.start_command = cfg.start_command,
             !.install_command = cfg.install_command,
             !.server_port = cfg.port,
             !.generated_code = RawOutput(ptype)]

\* an Optional[str] argument: None
NoText == <<>>

\* the characters of previous code a fix prompt takes over
PromptCodeLimit == 2000

\* a part of a prompt that holds a text, or the words "Not available"
Embedded(text) == [available |-> TRUE, text |-> text]
NotAvailable == [available |-> FALSE, text |-> <<>>]

\* an f-string field for a text that may be None
FormatText(t) == IF t = None THEN "None" ELSE t

\* a prompt, by the kind of its fixed text and the parts it embeds
Prompt(kind, description, error, previous_code) ==
  [kind |-> kind, description |-> description, error |-> error,
   previous_code |-> previous_code]

\* _create_generation_prompt: the request alone
CreateGenerationPrompt(description, context) ==
  Prompt("generation", description, "", NotAvailable)

\* _create_fix_prompt: the request, the error and the first characters of
\* the previous code, "Not available" without previous code
CreateFixPrompt(description, error, previous_code) ==
  Prompt("fix", description, FormatText(error),
         IF previous_code # NoText /\ previous_code[1] # <<>>
         THEN Embedded(Prefix(previous_code[1], PromptCodeLimit))
         ELSE NotAvailable)

\* generate_code: the prompt for an iteration
GenerationPrompt(description, context, iteration, previous_error) ==
  IF iteration = 1
  THEN CreateGenerationPrompt(description, context)
  ELSE CreateFixPrompt(description, previous_error, context)

\* _generate_code: the arguments of code_specialist.generate_code, and the
\* prompt generate_code makes of them; context is always None
GenerateCodeCall(st) ==
  [iteration |-> st.iteration,
   previous_error |-> PreviousError(st),
   prompt |-> GenerationPrompt(st.user_message, NoText, st.iteration,
                               PreviousError(st))]

\* GenerationFailed recording the default text instead of the error
GenerationFailedDefaultText(st, e) ==
  [st EXCEPT !.error_message = "Code generation failed"]

\* the node after a failed generation: gen_result.get("error", ...) becomes
\* the error message (generate_code always sets the key "error")
GenerationFailed(st, e) == [st EXCEPT !.error_message = e]

\* what a collaborator handed back to the node: the dict of generate_code
\* (success, error, project type, number of files) or the outcome of
\* execute_project
Reply(kind, success, error, ptype, nfiles, outcome) ==
  [kind |-> kind, success |-> success, error |-> error, project_type |-> ptype,
   files |-> nfiles, outcome |-> outcome]

\* the responses are written down in behaviours of more than one run
Recording == Cardinality(runs) > 1

Recorded(log, response) == IF Recording THEN Append(log, response) ELSE log

\* _generate_code: the call of code_specialist.generate_code, which returns
\* a failure dict with str(e) or a project; on failure the node records the
\* error and leaves the loop
GenerateCode(r) ==
  /\ pc[r] = "gen_call"
  /\ LET call == GenerateCodeCall(state[r])
     IN  \/ \E e \in ErrorTexts :
              /\ obs' = [obs EXCEPT
                           ![r].genCalls =
                              Append(@, [call |-> call, success |-> FALSE,
                                         error |-> e]),
                           ![r].responses =
                              Recorded(@, Reply("generate", FALSE, e, None,
                                                    0, NoOutcome))]
              /\ state' = [state EXCEPT ![r] = GenerationFailed(@, e)]
              /\ pc' = [pc EXCEPT ![r] = "finalize"]
         \/ \E ptype \in GeneratedTypes, nfiles \in {2} :
              /\ obs' = [obs EXCEPT
                           ![r].genCalls =
                              Append(@, [call |-> call, success |-> TRUE,
                                         error |-> None]),
                           ![r].responses =
                              Recorded(@, Reply("generate", TRUE, None,
                                                    ptype, nfiles,
                                                    NoOutcome))]
              /\ state' = [state EXCEPT ![r] =
                                          GeneratedState(@, ptype, nfiles)]
              /\ pc' = [pc EXCEPT ![r] = "gen_done"]
  /\ UNCHANGED <<calls, runs, loc, ex, result, sandboxes, workspace, now, api_key,
                 saves>>

\* _generate_code: the "generation_complete" event
GenerationComplete(r) ==
  /\ pc[r] = "gen_done"
  /\ \E o \in EmitOutcomes(r) :
       /\ obs' = Emitted(r, o, "generation_complete")
       /\ pc' = [pc EXCEPT ![r] = IF o = "raise" THEN "raised" ELSE "exec"]
  /\ UNCHANGED <<calls, runs, state, loc, ex, result, sandboxes, workspace, now,
                 api_key, saves>>

(***************************************************************************)
(* EnhancedSandboxService.execute_project, called by _execute_code with    *)
(* the files, commands and port of the state and the run's project name.   *)
(***************************************************************************)
\* the dict of the "except Exception as e" clause of execute_project
ExceptOutcome(e) == Outcome(FALSE, "", e, FALSE, NoUrl, NoPort, AbsentPath)

\* a failure dict that carries the project path
FailureOutcome(e, path) == Outcome(FALSE, "", e, FALSE, NoUrl, NoPort, path)

\* the api key check and Sandbox.create()
ExecCreateSandbox(r) ==
  /\ pc[r] = "exec"
  /\ obs' = [obs EXCEPT ![r].execCalls = @ + 1]
  /\ IF ~api_key
     THEN \* returned before the try statement
          /\ ex' = [ex EXCEPT ![r] =
                      [NoFrame EXCEPT !.ret =
                         ExceptOutcome("E2B_API_KEY not configured")]]
          /\ pc' = [pc EXCEPT ![r] = "exec_return"]
          /\ UNCHANGED sandboxes
     ELSE \/ \* Sandbox.create() raises
             \E e \in ErrorTexts :
               /\ ex' = [ex EXCEPT ![r] =
                           [NoFrame EXCEPT !.ret = ExceptOutcome(e)]]
               /\ pc' = [pc EXCEPT ![r] = "exec_finally"]
               /\ UNCHANGED sandboxes
          \/ \* a new sandbox
             /\ sandboxes' = Append(sandboxes, "alive")
             /\ ex' = [ex EXCEPT ![r] =
                         [NoFrame EXCEPT !.sandbox = Len(sandboxes) + 1]]
             /\ pc' = [pc EXCEPT ![r] = "exec_save"]
  /\ UNCHANGED <<calls, runs, state, loc, result, workspace, now, api_key, saves>>

\* _save_to_workspace: the directory the files are written to
ProjectDir(ws, project_name, clock) ==
  IF DirPath(project_name, 0) \in ws
  THEN DirPath(project_name, clock)
  ELSE DirPath(project_name, 0)

\* _save_to_workspace: makes the directory, writes the files into it and
\* returns it; when the file system refuses, it returns ""
ExecSaveToWorkspace(r) ==
  /\ pc[r] = "exec_save"
  /\ LET dir == ProjectDir(workspace, loc[r].project_name, now)
     IN  \/ /\ workspace' = workspace \cup {dir}
            /\ saves' = Append(saves, [run |-> r, dir |-> dir,
                                       existed |-> dir \in workspace])
            /\ ex' = [ex EXCEPT ![r].project_path = dir]
         \/ /\ ex' = [ex EXCEPT ![r].project_path = EmptyPath]
            /\ UNCHANGED <<workspace, saves>>
  /\ pc' = [pc EXCEPT ![r] = "exec_files"]
  /\ UNCHANGED <<calls, runs, state, loc, result, sandboxes, now, api_key, obs>>

\* the loop of _create_file_in_sandbox calls: run_code raises, or all files
\* were handed to the sandbox
ExecCreateFiles(r) ==
  /\ pc[r] = "exec_files"
  /\ \/ \E e \in ErrorTexts :
          /\ ex' = [ex EXCEPT ![r].ret = ExceptOutcome(e)]
          /\ pc' = [pc EXCEPT ![r] = "exec_finally"]
     \/ /\ pc' = [pc EXCEPT ![r] = "exec_install"]
        /\ UNCHANGED ex
  /\ UNCHANGED <<calls, runs, state, loc, result, sandboxes, workspace, now, api_key,
                 obs, saves>>

\* the install step: skipped without install command; else run_code raises,
\* reports an error, or succeeds
ExecInstall(r) ==
  /\ pc[r] = "exec_install"
  /\ IF state[r].install_command = None
     THEN /\ pc' = [pc EXCEPT ![r] = "exec_run"]
          /\ UNCHANGED ex
     ELSE \/ \E e \in ErrorTexts :
               /\ ex' = [ex EXCEPT ![r].ret = ExceptOutcome(e)]
               /\ pc' = [pc EXCEPT ![r] = "exec_finally"]
          \/ \E e \in ErrorTexts :
               /\ ex' = [ex EXCEPT ![r].ret =
                           FailureOutcome(e, ex[r].project_path)]
               /\ pc' = [pc EXCEPT ![r] = "exec_finally"]
          \/ /\ pc' = [pc EXCEPT ![r] = "exec_run"]
             /\ UNCHANGED ex
  /\ UNCHANGED <<calls, runs, state, loc, result, sandboxes, workspace, now, api_key,
                 obs, saves>>

\* "is_server = port is not None and start_command is not None"
IsServer(port, start_command) == port # NoPort /\ start_command # None

\* the server_url of _start_server
ServerUrl(sandbox_id, port) == <<sandbox_id, port>>

\* what the reachability probe of _start_server prints: check_result.text,
\* "" when the result has no text
ProbeOutputs == {"SERVER_RUNNING", "SERVER_NOT_RESPONDING", ""}

\* StartServerOutcomes reporting a failure unless the probe answers
\* SERVER_RUNNING
StartServerOutcomesStrict(sandbox_id, port, path) ==
  {[probe |-> "not_run", ret |-> FailureOutcome(e, path)] : e \in ErrorTexts}
  \cup {[probe |-> "raised", ret |-> FailureOutcome(e, path)] :
          e \in ErrorTexts}
  \cup {[probe |-> p,
          ret |-> IF p = "SERVER_RUNNING"
                  THEN Outcome(TRUE, "Server started successfully", "", TRUE,
                               ServerUrl(sandbox_id, port), port, path)
                  ELSE FailureOutcome("Server not responding", path)] :
          p \in ProbeOutputs}

\* what _start_server can return, with what its probe did: the start raised
\* or reported an error (the probe is not run), the probe raised, or the
\* probe printed something and the start is reported as a success whatever
\* that was ("if not server_running: server_running = True")
StartServerOutcomes(sandbox_id, port, path) ==
  {[probe |-> "not_run", ret |-> FailureOutcome(e, path)] : e \in ErrorTexts}
  \cup {[probe |-> "raised", ret |-> FailureOutcome(e, path)] :
          e \in ErrorTexts}
  \cup {[probe |-> p,
          ret |-> Outcome(TRUE, "Server started successfully", "", TRUE,
                          ServerUrl(sandbox_id, port), port, path)] :
          p \in ProbeOutputs}

\* what _execute_script can return, with the project_path execute_project
\* adds: run_code raised or reported an error, or the script's output
ExecuteScriptOutcomes(path) ==
  {FailureOutcome(e, path) : e \in ErrorTexts}
  \cup {Outcome(TRUE, out, "", FALSE, NoUrl, NoPort, path) : out \in OutTexts}

\* start_command.split(), for the start commands the project configurations
\* carry
CommandWords(command) ==
  CASE command = "npm start" -> <<"npm", "start">>
    [] command = "node index.js" -> <<"node", "index.js">>
    [] command = "python app.py" -> <<"python", "app.py">>
    [] command = "python main.py" -> <<"python", "main.py">>
    [] command = "uvicorn main:app --port 8100" ->
         <<"uvicorn", "main:app", "--port", "8100">>

\* _start_server: the argument list of the subprocess.Popen call in the
\* server_code it runs in the sandbox, chosen by the project type; the
\* start command is read for the other types only
ServerCommand(project_type, start_command, port) ==
  CASE project_type = "flask" ->
         <<"flask", "run", "--host=0.0.0.0", "--port=" \o ToString(port)>>
    [] project_type = "fastapi" ->
         <<"uvicorn", "main:app", "--host", "0.0.0.0", "--port",
           ToString(port)>>
    [] project_type \in {"express", "node"} -> <<"node", "server.js">>
    [] project_type = "react" -> <<"npm", "start">>
    [] OTHER -> CommandWords(start_command)

\* step 4 of execute_project: a server is started, or the script is run
ExecRun(r) ==
  /\ pc[r] = "exec_run"
  /\ IF IsServer(state[r].server_port, state[r].start_command)
     THEN \E o \in StartServerOutcomes(ex[r].sandbox, state[r].server_port,
                                       ex[r].project_path) :
            ex' = [ex EXCEPT ![r].is_server = "True",
                             ![r].probe = o.probe,
                             ![r].launched =
                               ServerCommand(state[r].project_type,
                                             state[r].start_command,
                                             state[r].server_port),
                             ![r].ret = o.ret]
     ELSE \E out \in ExecuteScriptOutcomes(ex[r].project_path) :
            ex' = [ex EXCEPT ![r].is_server = "False", ![r].ret = out]
  /\ pc' = [pc EXCEPT ![r] = "exec_finally"]
  /\ UNCHANGED <<calls, runs, state, loc, result, sandboxes, workspace, now, api_key,
                 obs, saves>>

\* Cleanup that kills the sandbox of a server too
CleanupAlways(sandbox, is_server) ==
  IF sandbox = 0 THEN "nothing"
  ELSE IF is_server = "unbound" THEN "raise"
  ELSE "kill"

\* "if sandbox and not is_server": what the finally clause does. "sandbox"
\* is tested first; reading is_server before the assignment of step 4
\* bound it raises UnboundLocalError
Cleanup(sandbox, is_server) ==
  IF sandbox = 0 THEN "nothing"
  ELSE IF is_server = "unbound" THEN "raise"
  ELSE IF is_server = "True" THEN "nothing"
  ELSE "kill"

\* the finally clause: the sandbox of a script is killed; kill() ends the
\* sandbox, or raises and leaves it as it is (the error is swallowed).  An
\* exception raised here replaces the pending return.
ExecFinally(r) ==
  /\ pc[r] = "exec_finally"
  /\ LET do == Cleanup(ex[r].sandbox, ex[r].is_server) IN
       CASE do = "raise" ->
              /\ ex' = [ex EXCEPT ![r].raised = "UnboundLocalError: is_server"]
              /\ UNCHANGED sandboxes
         [] do = "kill" ->
              /\ \E st \in {"killed", "kill_failed"} :
                   sandboxes' = [sandboxes EXCEPT ![ex[r].sandbox] = st]
              /\ UNCHANGED ex
         [] OTHER -> UNCHANGED <<ex, sandboxes>>
  /\ pc' = [pc EXCEPT ![r] = "exec_return"]
  /\ UNCHANGED <<calls, runs, state, loc, result, workspace, now, api_key, obs,
                 saves>>

\* _execute_code after execute_project returned: server info and project
\* path go into the state
ExecutedState(st, res) ==
  LET s1 == IF res.server_started
            THEN [st EXCEPT !.server_running = TRUE,
                            !.server_url = res.server_url,
                            !.server_port = res.server_port]
            ELSE st
  IN  IF PathTruthy(res.project_path)
      THEN [s1 EXCEPT !.project_path = res.project_path]
      ELSE s1

\* execute_project returns to _execute_code and this to the node, or the
\* exception of execute_project leaves process()
ExecReturn(r) ==
  /\ pc[r] = "exec_return"
  /\ IF ex[r].raised # None
     THEN /\ Raise(r, ex[r].raised)
          /\ UNCHANGED <<state, loc>>
     ELSE /\ state' = [state EXCEPT ![r] = ExecutedState(@, ex[r].ret)]
          /\ loc' = [loc EXCEPT ![r].exec_result = ex[r].ret]
          /\ pc' = [pc EXCEPT ![r] = "store"]
          /\ obs' = [obs EXCEPT ![r].responses =
                       Recorded(@, Reply("execute", ex[r].ret.success,
                                             None, None, 0, ex[r].ret))]
  /\ ex' = [ex EXCEPT ![r] = NoFrame]
  /\ UNCHANGED <<calls, runs, result, sandboxes, workspace, now, api_key, saves>>

(***************************************************************************)
(* _code_specialist_node: after the execution.                             *)
(***************************************************************************)
\* the IterationRecord appended for an execution outcome
IterationRecord(iteration, res) ==
  [iteration |-> iteration, success |-> res.success, stdout |-> res.stdout,
   stderr |-> res.stderr]

\* AppendRecord with one history list that all runs share
AppendRecordShared(states, r, record) ==
  [q \in RunIds |->
     [states[q] EXCEPT !.execution_results = Append(@, record)]]

\* AppendRecord that leaves out the record of a successful execution
AppendRecordOfFailure(states, r, record) ==
  IF record.success THEN states
  ELSE [states EXCEPT ![r].execution_results = Append(@, record)]

\* state["execution_results"].append(...): the list is the one process()
\* made for this run's initial_state
AppendRecord(states, r, record) ==
  [states EXCEPT ![r].execution_results = Append(@, record)]

\* "Store result", the project path and the success check
StoreResult(r) ==
  /\ pc[r] = "store"
  /\ LET res == loc[r].exec_result IN
       /\ state' = [AppendRecord(state, r,
                                 IterationRecord(loc[r].iteration, res))
                      EXCEPT
                      ![r].project_path =
                         IF PathTruthy(res.project_path)
                         THEN res.project_path ELSE @]
       /\ loc' = [loc EXCEPT ![r].final_success = res.success \/ @]
  /\ pc' = [pc EXCEPT ![r] = "notify"]
  /\ UNCHANGED <<calls, runs, ex, result, sandboxes, workspace, now, api_key, obs,
                 saves>>

\* AfterExecution without the break
AfterExecutionNoBreak(success) == "loop"

\* where the node goes after an execution: "break" on success, else on to
\* the next value of the range
AfterExecution(success) == IF success THEN "finalize" ELSE "loop"

\* the "success" event and the break, or the "fixing" event before the next
\* pass when the budget is not used up
NotifyResult(r) ==
  /\ pc[r] = "notify"
  /\ IF loc[r].exec_result.success
     THEN \E o \in EmitOutcomes(r) :
            /\ obs' = Emitted(r, o, "success")
            /\ pc' = [pc EXCEPT ![r] =
                        IF o = "raise" THEN "raised"
                        ELSE AfterExecution(TRUE)]
     ELSE IF loc[r].iteration < loc[r].max_iterations
     THEN \E o \in EmitOutcomes(r) :
            /\ obs' = Emitted(r, o, "fixing")
            /\ pc' = [pc EXCEPT ![r] =
                        IF o = "raise" THEN "raised"
                        ELSE AfterExecution(FALSE)]
     ELSE /\ pc' = [pc EXCEPT ![r] = AfterExecution(FALSE)]
          /\ UNCHANGED obs
  /\ UNCHANGED <<calls, runs, state, loc, ex, result, sandboxes, workspace, now,
                 api_key, saves>>

\* Python truthiness of a text value that may be None
TextTruthy(t) == t # None /\ t # ""

\* "Set final output"
FinalOutput(st, final_success, iteration) ==
  IF final_success
  THEN Output("Successfully created " \o st.project_type
                 \o " project with " \o ToString(st.files) \o " files",
              st.server_url,
              IF PathTruthy(st.project_path) THEN st.project_path
              ELSE AbsentPath,
              None)
  ELSE Output("Failed after " \o ToString(iteration) \o " iterations",
              NoUrl, AbsentPath,
              IF TextTruthy(st.error_message) THEN st.error_message ELSE None)

\* "Finalize state": with max_iterations < 1 the loop variable was never
\* bound and reading it raises UnboundLocalError
Finalize(r) ==
  /\ pc[r] = "finalize"
  /\ IF loc[r].iteration = 0
     THEN /\ state' = [state EXCEPT ![r].success = loc[r].final_success]
          /\ Raise(r, "UnboundLocalError: iteration")
     ELSE /\ state' = [state EXCEPT
                         ![r].success = loc[r].final_success,
                         ![r].total_iterations = loc[r].iteration,
                         ![r].final_output =
                            FinalOutput(state[r], loc[r].final_success,
                                        loc[r].iteration)]
          /\ pc' = [pc EXCEPT ![r] = "return"]
          /\ UNCHANGED obs
  /\ UNCHANGED <<calls, runs, loc, ex, result, sandboxes, workspace, now, api_key,
                 saves>>

\* process(): "FINAL RESPONSE WITH ALL DATA"
Response(st) ==
  [returned |-> TRUE, success |-> st.success, output |-> st.final_output,
   error |-> st.error_message, total_iterations |-> st.total_iterations,
   execution_results |-> st.execution_results,
   project_path |-> st.project_path, server_url |-> st.server_url]

Return(r) ==
  /\ pc[r] = "return"
  /\ result' = [result EXCEPT ![r] = Response(state[r])]
  /\ pc' = [pc EXCEPT ![r] = "done"]
  /\ UNCHANGED <<calls, runs, state, loc, ex, sandboxes, workspace, now, api_key,
                 obs, saves>>

\* a second of wall clock passes
Tick ==
  /\ now < MaxClock
  /\ now' = now + 1
  /\ UNCHANGED <<calls, runs, pc, state, loc, ex, result, sandboxes, workspace,
                 api_key, obs, saves>>

(***************************************************************************)
(* Single calls of generate_code, classify_task and _extract_project_name, *)
(* each on an input of its own, with no run of process() around them: the  *)
(* inputs.                                                                 *)
(***************************************************************************)
\* an answer of an LLM collaborator: the error it raised, or its text
Answer(error, text) == [error |-> error, text |-> text]

\* the file paths and file contents the generator writes
GenPaths ==
  { <<"a">>, <<"a", "/", "b">>, <<"a", "p", "p", ".", "p", "y">>,
    <<"m", ".", "p", "y">>,
    <<"p", "a", "c", "k", "a", "g", "e", ".", "j", "s", "o", "n">> }
GenContents ==
  { <<"x">>, <<"R", "e", "a", "c", "t">>, <<"E", "x", "p", "r", "e", "s", "s">>,
    <<"f", "l", "a", "s", "k">>, <<"k", "-", "-", "-", "v">> }

\* the entries of a files section: up to MaxFiles headings with contents
EntryLists ==
  UNION {[1..n -> [path : GenPaths, content : GenContents]] : n \in 1..MaxFiles}

\* the format the prompts ask for, one entry
RECURSIVE WriteEntries(_)
WriteEntries(entries) ==
  IF entries = <<>> THEN <<>>
  ELSE <<"-", "-", "-", " ">> \o entries[1].path \o <<" ", "-", "-", "-">> \o <<"\n">>
       \o entries[1].content \o <<"\n", "\n">> \o WriteEntries(Tail(entries))

\* the format the prompts ask for: the files section and the section
\* behind it
WriteFilesSection(entries) ==
  <<"F", "I", "L", "E", "S", ":">> \o <<"\n">> \o WriteEntries(entries)
  \o <<"S", "T", "R", "U", "C", "T", "U", "R", "E", ":">> \o <<"\n">>

\* answers of the generator that hold no files section, or an empty one
RawTexts ==
  { <<"x">>,
    Fence \o <<"p", "y", "t", "h", "o", "n">> \o <<"\n", "x", "\n">> \o Fence,
    Fence \o <<"p", "y">> \o <<"\n", "x", "\n">> \o Fence,
    Fence \o <<"j", "s">> \o <<"\n", "x", "\n">> \o Fence,
    Fence \o <<"t", "y", "p", "e", "s", "c", "r", "i", "p", "t">>
      \o <<"\n", "x", "\n">> \o Fence,
    Fence \o <<"\n", "x", "\n">> \o Fence,
    <<"o", "k", " ">> \o Fence \o <<"p", "y", "t", "h", "o", "n">>
      \o <<"\n", "x", "\n", "y", "\n">> \o Fence \o <<"\n">>,
    <<"F", "I", "L", "E", "S", ":">> \o <<"\n", "x">> }

\* a generate_code call: what the generator was meant to write (entries,
\* for an answer in the format), its answer, what the parser made of the
\* text and the result of the call
GenCall(status, entries, answer) ==
  [status |-> status, entries |-> entries, answer |-> answer,
   parsed |-> NoProject, result |-> NoGenResult]

NoGen == GenCall("idle", <<>>, Answer(None, <<>>))

GenerateInputs ==
  {GenCall("called", e, Answer(None, WriteFilesSection(e))) : e \in EntryLists}
  \cup {GenCall("called", <<>>, Answer(None, t)) : t \in RawTexts}
  \cup {GenCall("called", <<>>, Answer(e, <<>>)) : e \in ErrorTexts}

\* a classify_task call
RouteCall(status, message, answer) ==
  [status |-> status, message |-> message, answer |-> answer,
   decision |-> Decision(<<>>, Number(0, 1))]

NoRoute == RouteCall("idle", <<>>, Answer(None, <<>>))

\* user messages for the router
RouterMessages ==
  { <<"r", "u", "n", " ", "t", "h", "i", "s", " ", "a", "p", "p">>,
    <<"O", "p", "e", "n", " ", "U", "R", "L">>,
    <<"f", "e", "t", "c", "h", " ", "w", "e", "a", "t", "h", "e", "r">>,
    <<"h", "e", "l", "l", "o">>,
    <<"T", "y", "p", "e", " ", "J", "a", "v", "a">> }

\* what the LLM writes behind "TASK_TYPE:" and "CONFIDENCE:" (<<>>: it
\* leaves the line out)
AnswerTypes ==
  { <<>>, <<" ", "c", "o", "d", "i", "n", "g">>, <<" ", "D", "e", "s", "k", "t", "o", "p">>,
    <<" ", "w", "e", "b">>, <<"g", "e", "n", "e", "r", "a", "l">>,
    <<" ", "p", "o", "e", "t", "r", "y">> }
AnswerConfidences ==
  { <<>>, <<" ", "0", ".", "9", "5">>, <<" ", "1", ".", "5">>, <<" ", "-", "1">>,
    <<" ", "h", "i", "g", "h">> }

\* one line of the answer
AnswerLine(key, value) ==
  IF value = <<>> THEN <<>> ELSE key \o value \o <<"\n">>

RouterAnswers ==
  {Answer(None,
          AnswerLine(<<"T", "A", "S", "K", "_", "T", "Y", "P", "E", ":">>, t)
          \o AnswerLine(<<"C", "O", "N", "F", "I", "D", "E", "N", "C", "E", ":">>,
                        c)
          \o <<"R", "E", "A", "S", "O", "N", "I", "N", "G", ":", " ", "o", "k">>) :
     t \in AnswerTypes, c \in AnswerConfidences}
  \cup {Answer(e, <<>>) : e \in ErrorTexts}

RouteInputs ==
  {RouteCall("called", m, a) : m \in RouterMessages, a \in RouterAnswers}

\* an _extract_project_name call
NameCall(status, message) ==
  [status |-> status, message |-> message, name |-> <<>>]

NoNaming == NameCall("idle", <<>>)

\* the words user messages are made of
NameWords ==
  << <<"C", "r", "e", "a", "t", "e">>, <<"a">>,
     <<"R", "e", "a", "c", "t">>, <<"T", "o", "d", "o">>,
     <<"A", "p", "p">> >>

\* ' '.join(words)
RECURSIVE JoinSpace(_)
JoinSpace(words) ==
  IF words = <<>> THEN <<>>
  ELSE IF Len(words) = 1 THEN words[1]
       ELSE words[1] \o <<" ">> \o JoinSpace(Tail(words))

\* user messages of up to MaxWords words
NameMessages ==
  {JoinSpace([i \in DOMAIN ix |-> NameWords[ix[i]]]) :
     ix \in UNION {[1..n -> 1..Len(NameWords)] : n \in 1..MaxWords}}

NameInputs == {NameCall("called", m) : m \in NameMessages}

\* one run at a time, and no single call
Init ==
  /\ InitWith({"r1"})
  /\ gen = NoGen
  /\ route = NoRoute
  /\ naming = NoNaming

Next ==
  \/ \E r \in RunIds : Process(r)
  \/ \E r \in RunIds : RouteToAgent(r)
  \/ \E r \in RunIds : IterationStart(r)
  \/ \E r \in RunIds : GenerateNotify(r)
  \/ \E r \in RunIds : GenerateCode(r)
  \/ \E r \in RunIds : GenerationComplete(r)
  \/ \E r \in RunIds : ExecCreateSandbox(r)
  \/ \E r \in RunIds : ExecSaveToWorkspace(r)
  \/ \E r \in RunIds : ExecCreateFiles(r)
  \/ \E r \in RunIds : ExecInstall(r)
  \/ \E r \in RunIds : ExecRun(r)
  \/ \E r \in RunIds : ExecFinally(r)
  \/ \E r \in RunIds : ExecReturn(r)
  \/ \E r \in RunIds : StoreResult(r)
  \/ \E r \in RunIds : NotifyResult(r)
  \/ \E r \in RunIds : Finalize(r)
  \/ \E r \in RunIds : Return(r)
  \/ Tick

Spec == Init /\ [][Next]_vars

(***************************************************************************)
(* The single calls.                                                       *)
(***************************************************************************)
\* the variables of the runs
main ==
  <<runs, pc, state, loc, ex, result, sandboxes, workspace, now, api_key,
    obs, saves>>

\* no run of process()
NoRuns == InitWith({}) /\ workspace = {} /\ api_key

\* generate_code returns
GenerateCodeReturn ==
  /\ gen.status = "called"
  /\ \E res \in GenerateCodeResults(gen.answer) :
       gen' = [gen EXCEPT
                 !.status = "returned",
                 !.parsed = ParseMultiFileOutput(Strip(gen.answer.text)),
                 !.result = res]
  /\ UNCHANGED <<main, route, naming>>

InitGenerate ==
  NoRuns /\ gen \in GenerateInputs /\ route = NoRoute /\ naming = NoNaming

NextGenerate == GenerateCodeReturn

SpecGenerate == InitGenerate /\ [][NextGenerate]_vars

\* classify_task returns
ClassifyTaskReturn ==
  /\ route.status = "called"
  /\ route' = [route EXCEPT
                 !.status = "returned",
                 !.decision = ClassifyTask(route.message, route.answer)]
  /\ UNCHANGED <<main, gen, naming>>

InitRouter ==
  NoRuns /\ gen = NoGen /\ route \in RouteInputs /\ naming = NoNaming

NextRouter == ClassifyTaskReturn

SpecRouter == InitRouter /\ [][NextRouter]_vars

\* _extract_project_name returns
ExtractProjectNameReturn ==
  /\ naming.status = "called"
  /\ naming' = [naming EXCEPT
                  !.status = "returned",
                  !.name = ExtractProjectName(naming.message)]
  /\ UNCHANGED <<main, gen, route>>

InitName ==
  NoRuns /\ gen = NoGen /\ route = NoRoute /\ naming \in NameInputs

NextName == ExtractProjectNameReturn

SpecName == InitName /\ [][NextName]_vars

(***************************************************************************)
(* Two process() calls on one event loop.  A coroutine is left only where  *)
(* it waits: a run takes a step only while the other one stands before or  *)
(* behind a call of the subscriber, the generator or the sandbox service   *)
(* (or has not begun, or has ended).  Both calls are given a budget of at  *)
(* most one iteration.                                                     *)
(***************************************************************************)
\* where a run stands while another one takes its steps
SuspensionPoints ==
  {"idle", "loop", "gen_notify", "gen_call", "gen_done", "exec", "store",
   "finalize", "done", "raised"}

Suspended(r) == pc[r] \in SuspensionPoints

\* run r may take a step
Turn(r) == r \in runs /\ \A q \in runs \ {r} : Suspended(q)

\* process() called with max_iterations 0 or 1
ProcessOnce(r) == Process(r) /\ state'[r].max_iterations <= 1

\* the generator fails, or answers with a server project (react) or with a
\* script (python)
GenerateEither(r) ==
  GenerateCode(r) /\ state'[r].project_type \in {None, "react", "python"}

InitTwo ==
  /\ InitWith(RunIds)
  /\ workspace = {}
  /\ api_key
  /\ gen = NoGen
  /\ route = NoRoute
  /\ naming = NoNaming

NextTwo ==
  \/ \E r \in RunIds : Turn(r) /\ ProcessOnce(r)
  \/ \E r \in RunIds : Turn(r) /\ RouteToAgent(r)
  \/ \E r \in RunIds : Turn(r) /\ IterationStart(r)
  \/ \E r \in RunIds : Turn(r) /\ GenerateNotify(r)
  \/ \E r \in RunIds : Turn(r) /\ GenerateEither(r)
  \/ \E r \in RunIds : Turn(r) /\ GenerationComplete(r)
  \/ \E r \in RunIds : Turn(r) /\ ExecCreateSandbox(r)
  \/ \E r \in RunIds : Turn(r) /\ ExecSaveToWorkspace(r)
  \/ \E r \in RunIds : Turn(r) /\ ExecCreateFiles(r)
  \/ \E r \in RunIds : Turn(r) /\ ExecInstall(r)
  \/ \E r \in RunIds : Turn(r) /\ ExecRun(r)
  \/ \E r \in RunIds : Turn(r) /\ ExecFinally(r)
  \/ \E r \in RunIds : Turn(r) /\ ExecReturn(r)
  \/ \E r \in RunIds : Turn(r) /\ StoreResult(r)
  \/ \E r \in RunIds : Turn(r) /\ NotifyResult(r)
  \/ \E r \in RunIds : Turn(r) /\ Finalize(r)
  \/ \E r \in RunIds : Turn(r) /\ Return(r)

SpecTwo == InitTwo /\ [][NextTwo]_vars

(***************************************************************************)
(* Properties.                                                             *)
(***************************************************************************)
Records(r) == state[r].execution_results

GenCalls(r) == obs[r].genCalls

Coding(r) == state[r].task_type = "coding"

\* every generation call of run r succeeded
AllGenerationsSucceeded(r) ==
  \A i \in 1..Len(GenCalls(r)) : GenCalls(r)[i].success

\* every execution of run r reported failure
AllExecutionsFailed(r) ==
  \A i \in 1..Len(Records(r)) : ~Records(r)[i].success

\* C1 (iteration bound): generation is never called more often than
\* max_iterations; a coding run with max_iterations = N >= 1 whose
\* generations all succeed and whose executions all report failure returns
\* after exactly N generation calls and N execution calls, with the records
\* 1..N in order and success = false.
C1_IterationBound ==
  \A r \in RunIds :
    /\ Len(GenCalls(r)) <= state[r].max_iterations
    /\ obs[r].execCalls <= state[r].max_iterations
    /\ ( /\ pc[r] = "done"
         /\ Coding(r)
         /\ state[r].max_iterations >= 1
         /\ AllGenerationsSucceeded(r)
         /\ AllExecutionsFailed(r) )
       => /\ Len(GenCalls(r)) = state[r].max_iterations
          /\ obs[r].execCalls = state[r].max_iterations
          /\ Len(Records(r)) = state[r].max_iterations
          /\ \A i \in 1..Len(Records(r)) : Records(r)[i].iteration = i
          /\ result[r].returned
          /\ ~result[r].success
          /\ result[r].execution_results = Records(r)

\* a run that used up a budget of two iterations
C1_Witness ==
  \E r \in RunIds :
    /\ pc[r] = "done"
    /\ Coding(r)
    /\ state[r].max_iterations = 2
    /\ Len(GenCalls(r)) = 2
    /\ AllGenerationsSucceeded(r)
    /\ Len(Records(r)) = 2
    /\ AllExecutionsFailed(r)

\* C2 (early stop on success): once an execution has succeeded, its record
\* is the last one, generation and execution have been called exactly as
\* often as there are records and the run is past its loop; the result then
\* has success = true and exactly these k records, whatever budget is left.
C2_EarlyStopOnSuccess ==
  \A r \in RunIds :
    \A k \in 1..Len(Records(r)) :
      Records(r)[k].success =>
        /\ k = Len(Records(r))
        /\ \A i \in 1..(k - 1) : ~Records(r)[i].success
        /\ Len(GenCalls(r)) = k
        /\ obs[r].execCalls = k
        /\ pc[r] \in {"notify", "finalize", "return", "done", "raised"}
        /\ pc[r] = "done" =>
             /\ result[r].success
             /\ Len(result[r].execution_results) = k
             /\ result[r].total_iterations = k

\* a run that succeeded in its first iteration with budget left
C2_Witness ==
  \E r \in RunIds :
    /\ pc[r] = "done"
    /\ result[r].success
    /\ Coding(r)
    /\ Len(Records(r)) = 1
    /\ state[r].max_iterations = 2

\* C3 (fatal generation failure): when the generation call of iteration k
\* fails, it is the last generation call, execution was called k-1 times,
\* there are k-1 records, the run goes straight to its end, and the result
\* has success = false and the generator's error text as its error.
C3_GenerationFailureIsFatal ==
  \A r \in RunIds :
    \A k \in 1..Len(GenCalls(r)) :
      ~GenCalls(r)[k].success =>
        /\ k = Len(GenCalls(r))
        /\ GenCalls(r)[k].call.iteration = k
        /\ obs[r].execCalls = k - 1
        /\ Len(Records(r)) = k - 1
        /\ pc[r] \in {"finalize", "return", "done"}
        /\ pc[r] = "done" =>
             /\ result[r].returned
             /\ ~result[r].success
             /\ result[r].error = GenCalls(r)[k].error
             /\ Len(result[r].execution_results) = k - 1

\* a run whose second generation failed with "e1"
C3_Witness ==
  \E r \in RunIds :
    /\ pc[r] = "done"
    /\ Len(GenCalls(r)) = 2
    /\ ~GenCalls(r)[2].success
    /\ GenCalls(r)[2].error = "e1"
    /\ Len(Records(r)) = 1

\* C4 (error feedback): the i-th generation call is the one of iteration i,
\* and its previous_error is None for i = 1 and the stderr of record i-1
\* for i > 1.
C4_PreviousErrorIsLastStderr ==
  \A r \in RunIds :
    \A i \in 1..Len(GenCalls(r)) :
      /\ GenCalls(r)[i].call.iteration = i
      /\ GenCalls(r)[i].call.previous_error =
           IF i = 1 THEN None ELSE Records(r)[i - 1].stderr

\* a second generation that was handed the stderr "e1" of the first record
C4_Witness ==
  \E r \in RunIds :
    /\ Len(GenCalls(r)) = 2
    /\ Records(r)[1].stderr = "e1"
    /\ GenCalls(r)[2].call.previous_error = "e1"

\* run r returned after the execution of its last iteration failed
Exhausted(r) ==
  /\ pc[r] = "done"
  /\ Coding(r)
  /\ AllGenerationsSucceeded(r)
  /\ Len(Records(r)) = state[r].max_iterations
  /\ AllExecutionsFailed(r)

\* C5 (exhausted message): the final output of an exhausted run is "Failed
\* after N iterations" together with the stderr of the last record (when
\* that text is not empty).
C5_ExhaustedCarriesLastError ==
  \A r \in RunIds :
    Exhausted(r) =>
      LET last == Records(r)[Len(Records(r))].stderr IN
      /\ result[r].output.summary =
           "Failed after " \o ToString(state[r].max_iterations)
             \o " iterations"
      /\ TextTruthy(last) => result[r].output.error = last

\* C6 (subscriber errors are swallowed): process() never ends with the
\* error a subscriber raised on an event.
C6_SubscriberErrorsSwallowed ==
  \A r \in RunIds :
    ~(pc[r] = "raised" /\ obs[r].exception = "SubscriberError")

\* C7 (routing): the router is called exactly once per run, and a run of
\* any category but coding calls neither generation nor execution, has no
\* records, goes straight to its end and returns success = true with one
\* of the canned acknowledgments.
C7_NonCodingEndsAtOnce ==
  \A r \in RunIds :
    /\ obs[r].routerCalls = IF pc[r] = "idle" THEN 0 ELSE 1
    /\ (pc[r] # "idle" /\ ~Coding(r)) =>
         /\ GenCalls(r) = <<>>
         /\ obs[r].execCalls = 0
         /\ Records(r) = <<>>
         /\ obs[r].events = <<>>
         /\ pc[r] \in {"route", "return", "done"}
         /\ pc[r] = "done" =>
              /\ result[r].returned
              /\ result[r].success
              /\ result[r].execution_results = <<>>
              /\ result[r].total_iterations = 0
              /\ result[r].output.summary \in
                   {"Desktop task (using existing skills)",
                    "General query (using existing LLM)"}

\* a web run that returned
C7_Witness ==
  \E r \in RunIds :
    /\ pc[r] = "done"
    /\ state[r].task_type = "web"
    /\ result[r].success

\* C8 (sandbox errors become outcomes): execute_project never ends with an
\* exception, and so process() never ends with one of execute_project.
C8_NoExceptionFromExecution ==
  \A r \in RunIds :
    /\ pc[r] = "exec_return" => ex[r].raised = None
    /\ ~(pc[r] = "raised" /\ obs[r].exception = "UnboundLocalError: is_server")

\* execute_project of run r is about to return an outcome
ExecReturns(r) == pc[r] = "exec_return" /\ ex[r].raised = None

\* the project execute_project of run r was called with is no server
NonServerCall(r) ==
  ~IsServer(state[r].server_port, state[r].start_command)

C10_SaveNeverOverwrites ==
  \A i \in 1..Len(saves) : ~saves[i].existed

\* C11 (workspace path on every outcome): every outcome execute_project
\* returns, success or failure, carries the path of a workspace directory
\* the files were saved to.
C11_OutcomeCarriesWorkspacePath ==
  \A r \in RunIds :
    ExecReturns(r) =>
      /\ PathTruthy(ex[r].ret.project_path)
      /\ ex[r].ret.project_path \in workspace

\* the start step of the server project of run r reported no error and the
\* probe gave an answer
ProbeAnswered(r) == ex[r].is_server = "True" /\ ex[r].probe \in ProbeOutputs

\* C12 (optimistic server start): when the start step of a server project
\* reported no error and the probe answered, positively, negatively or with
\* nothing, the outcome is success = true with server_started = true, the
\* server URL and the port.
C12_ServerStartIsOptimistic ==
  \A r \in RunIds :
    ProbeAnswered(r) =>
      /\ pc[r] \in {"exec_finally", "exec_return"}
      /\ IsServer(state[r].server_port, state[r].start_command)
      /\ ex[r].raised = None
      /\ ex[r].ret.success
      /\ ex[r].ret.server_started
      /\ ex[r].ret.server_url = ServerUrl(ex[r].sandbox, state[r].server_port)
      /\ ex[r].ret.server_url # NoUrl
      /\ ex[r].ret.server_port = state[r].server_port
      /\ ex[r].ret.server_port # NoPort

\* execute_project returns a started server whose probe answered
\* SERVER_NOT_RESPONDING
C12_Witness ==
  \E r \in RunIds :
    /\ ExecReturns(r)
    /\ ex[r].probe = "SERVER_NOT_RESPONDING"
    /\ ex[r].ret.success
    /\ ex[r].ret.server_started

\* generate_code returned
Generated == gen.status = "returned"

\* the positions of the files of a mapping: their paths, split at "/"
FilePositions(files) == {Split(files[i].path, "/") : i \in 1..Len(files)}

\* the positions of the "file" leaves of a tree
TreeLeaves(nodes) == {n.path : n \in {m \in nodes : m.kind = "file"}}

\* no two entries have the same path
UniquePaths(entries) ==
  \A i, j \in 1..Len(entries) : entries[i].path = entries[j].path => i = j

\* path p names a directory that path q lies in
Collide(p, q) == p # q /\ IsPrefix(Split(p, "/"), Split(q, "/"))

\* two of the entries collide as file and directory
HasCollision(entries) ==
  \E i, j \in 1..Len(entries) : Collide(entries[i].path, entries[j].path)

\* C13 (parser round trip): a file mapping with N unique paths, none of
\* them a directory of another, written as a files section and parsed gives
\* the same mapping and a tree with N file leaves (read for contents
\* without surrounding whitespace, which the parser trims).
C13_ParserRoundTrip ==
  ( /\ Generated
    /\ gen.entries # <<>>
    /\ UniquePaths(gen.entries)
    /\ ~HasCollision(gen.entries)
    /\ \A i \in 1..Len(gen.entries) :
         Strip(gen.entries[i].content) = gen.entries[i].content )
  => /\ ~gen.parsed.raised
     /\ gen.parsed.files = gen.entries
     /\ Cardinality(TreeLeaves(gen.parsed.structure)) = Len(gen.entries)

\* C14 (tree and mapping agree): in every ParsedProject the parser returns,
\* the paths of the mapping and the "file" leaves of the tree are the same
\* positions, and what lies above a leaf is a directory.
C14_TreeMatchesFiles ==
  (Generated /\ ~gen.parsed.raised) =>
    /\ FilePositions(gen.parsed.files) = TreeLeaves(gen.parsed.structure)
    /\ \A n \in gen.parsed.structure :
         \A k \in 1..(Len(n.path) - 1) :
           Kind(gen.parsed.structure, SubSeq(n.path, 1, k)) = "dir"

\* C15 (collisions are rejected): when two entries of the files section
\* collide as file and directory, in either order, the parser returns no
\* ParsedProject and generate_code reports a failure.
C15_CollisionsRejected ==
  (Generated /\ HasCollision(gen.entries)) =>
    /\ gen.parsed.raised
    /\ ~gen.result.success

\* the project type the manifest alone asks for
ManifestType(package_json) ==
  IF Contains(Lower(package_json), <<"r", "e", "a", "c", "t">>) THEN "react"
  ELSE IF Contains(Lower(package_json), <<"e", "x", "p", "r", "e", "s", "s">>)
  THEN "express"
  ELSE "node"

\* C16 (classifier precedence): a generated project with a file
\* "package.json" has the project type its manifest asks for (react, else
\* express, else node), whatever its other files hold; a react manifest
\* gives is_server = true and port 5555.
C16_ManifestDecidesType ==
  ( /\ Generated
    /\ gen.result.success
    /\ HasFile(gen.result.files, PackageJson) )
  => LET manifest == FileContent(gen.result.files, PackageJson)
     IN  /\ gen.result.project_type = ManifestType(manifest)
         /\ ManifestType(manifest) = "react" =>
              /\ gen.result.is_server
              /\ gen.result.port = 5555

\* a package.json that mentions React next to an app.py that holds flask
\* was classified as react
C16_Witness ==
  /\ Generated
  /\ gen.result.success
  /\ HasFile(gen.result.files, PackageJson)
  /\ Contains(FileContent(gen.result.files, PackageJson), <<"R", "e", "a", "c", "t">>)
  /\ HasFile(gen.result.files, <<"a", "p", "p", ".", "p", "y">>)
  /\ FileContent(gen.result.files, <<"a", "p", "p", ".", "p", "y">>)
       = <<"f", "l", "a", "s", "k">>
  /\ gen.result.project_type = "react"
  /\ gen.result.port = 5555

\* the extension of the language a text's fence marker hints at
HintedExtension(text) ==
  IF Contains(text, Fence \o <<"t", "y", "p", "e", "s", "c", "r", "i", "p", "t">>)
  THEN <<"t", "s">>
  ELSE IF \/ Contains(text, Fence \o <<"j", "a", "v", "a", "s", "c", "r", "i", "p", "t">>)
          \/ Contains(text, Fence \o <<"j", "s">>)
  THEN <<"j", "s">>
  ELSE <<"p", "y">>

\* C17 (single file fallback): when the generator's text parses to no
\* files, generate_code returns success with exactly one file, named main
\* with the extension of the hinted language (py, js, ts), which is the
\* main file.
C17_FallbackSingleFile ==
  ( /\ Generated
    /\ gen.answer.error = None
    /\ ~gen.parsed.raised
    /\ gen.parsed.files = <<>> )
  => /\ gen.result.success
     /\ Len(gen.result.files) = 1
     /\ gen.result.files[1].path =
          <<"m", "a", "i", "n", ".">> \o HintedExtension(gen.answer.text)
     /\ gen.result.main_file = <<gen.result.files[1].path>>

\* the stop words of the project name
StopWords == {RemoveWords[i] : i \in 1..Len(RemoveWords)}

IsToken(w) == w # <<>>
IsKept(w) == w \notin StopWords

\* the project name by whole tokens: lowercase, split at blanks, drop the
\* stop words, join the first three with hyphens, cap at 30 characters
SlugOfTokens(message) ==
  LET tokens == SelectSeq(Split(Lower(message), " "), IsToken)
      kept == SelectSeq(tokens, IsKept)
  IN  IF kept = <<>>
      THEN <<"m", "y", "-", "p", "r", "o", "j", "e", "c", "t">>
      ELSE Prefix(JoinHyphen(Prefix(kept, 3)), 30)

\* C18 (project name): the name derived from a message is the slug of its
\* tokens without the stop words; "Create a React Todo App" gives
\* "react-todo".
C18_NameIsSlugOfTokens ==
  naming.status = "returned" =>
    naming.name = SlugOfTokens(naming.message)

\* classify_task returned
Classified == route.status = "returned"

\* C19 (router fallback): when the LLM collaborator raised, the decision is
\* the keyword classification of the message: confidence 0.7 and the
\* category of the first keyword list that matches (coding, then desktop,
\* then web), or general with confidence 0.5 when none matches.
C19_FallbackOnLlmError ==
  (Classified /\ route.answer.error # None) =>
    LET m == Lower(route.message)
        coding == AnyKeyword(m, CodingKeywords)
        desktop == AnyKeyword(m, DesktopKeywords)
        web == AnyKeyword(m, WebKeywords)
    IN  /\ route.decision.task_type =
             IF coding THEN <<"c", "o", "d", "i", "n", "g">>
             ELSE IF desktop THEN <<"d", "e", "s", "k", "t", "o", "p">>
             ELSE IF web THEN <<"w", "e", "b">>
             ELSE <<"g", "e", "n", "e", "r", "a", "l">>
        /\ route.decision.confidence =
             IF coding \/ desktop \/ web THEN Number(7, 10)
             ELSE Number(5, 10)

\* the LLM raised on a message with a coding and a desktop keyword, which
\* was classified as coding
C19_Witness ==
  /\ Classified
  /\ route.answer.error = "e1"
  /\ AnyKeyword(Lower(route.message), CodingKeywords)
  /\ AnyKeyword(Lower(route.message), DesktopKeywords)
  /\ route.decision.task_type = <<"c", "o", "d", "i", "n", "g">>
  /\ route.decision.confidence = Number(7, 10)

\* the categories of the taxonomy
Taxonomy ==
  { <<"c", "o", "d", "i", "n", "g">>,
    <<"d", "e", "s", "k", "t", "o", "p">>,
    <<"g", "e", "n", "e", "r", "a", "l">>, <<"w", "e", "b">> }

\* C20 (classification is well formed): the decision of the router has a
\* category of the taxonomy and a confidence within [0, 1].
C20_DecisionInTaxonomy ==
  Classified =>
    /\ route.decision.task_type \in Taxonomy
    /\ 0 <= route.decision.confidence.num
    /\ route.decision.confidence.num <= route.decision.confidence.den

\* what belongs to run r: its place in process(), its AgentState, the locals
\* of its frames, its result and what was seen of it
RunState(r) == <<pc[r], state[r], loc[r], ex[r], result[r], obs[r]>>

\* a step of run r
StepOf(r) ==
  \/ Process(r) \/ RouteToAgent(r) \/ IterationStart(r) \/ GenerateNotify(r)
  \/ GenerateCode(r) \/ GenerationComplete(r) \/ ExecCreateSandbox(r)
  \/ ExecSaveToWorkspace(r) \/ ExecCreateFiles(r) \/ ExecInstall(r)
  \/ ExecRun(r) \/ ExecFinally(r) \/ ExecReturn(r) \/ StoreResult(r)
  \/ NotifyResult(r) \/ Finalize(r) \/ Return(r)

\* the loop of a coding run that is alone, from pass "iteration" on, fed
\* with the responses of its collaborators in the order it asks for them:
\* the state it ends with, final_success and the last value of the loop
\* variable
RECURSIVE AloneLoop(_, _, _)
AloneLoop(st, iteration, responses) ==
  IF iteration > st.max_iterations
  THEN [state |-> st, final_success |-> FALSE, iteration |-> iteration - 1]
  ELSE
    LET s1 == [st EXCEPT !.iteration = iteration]
        generated == responses[1]
    IN  IF ~generated.success
        THEN [state |-> [s1 EXCEPT !.error_message = generated.error],
              final_success |-> FALSE, iteration |-> iteration]
        ELSE
          LET s2 == GeneratedState(s1, generated.project_type,
                                   generated.files)
              outcome == responses[2].outcome
              s3 == ExecutedState(s2, outcome)
              s4 == [s3 EXCEPT
                       !.execution_results =
                          Append(@, IterationRecord(iteration, outcome)),
                       !.project_path =
                          IF PathTruthy(outcome.project_path)
                          THEN outcome.project_path ELSE @]
          IN  IF outcome.success
              THEN [state |-> s4, final_success |-> TRUE,
                    iteration |-> iteration]
              ELSE AloneLoop(s4, iteration + 1, SubSeq(responses, 3,
                                                       Len(responses)))

\* the AgentState a process() call that is alone ends with, for a message,
\* a budget, the router's category and the responses of generator and
\* sandbox
AloneState(user_message, max_iterations, task_type, responses) ==
  LET s0 == [InitialState(user_message, max_iterations) EXCEPT
               !.task_type = task_type, !.agent_path = <<"router">>]
  IN  CASE task_type = "coding" ->
             LET end == AloneLoop([s0 EXCEPT !.agent_path =
                                     Append(@, "code_specialist")],
                                  1, responses)
             IN  [end.state EXCEPT
                    !.success = end.final_success,
                    !.total_iterations = end.iteration,
                    !.final_output =
                       FinalOutput(end.state, end.final_success,
                                   end.iteration)]
        [] task_type = "desktop" -> DesktopSpecialistNode(s0)
        [] OTHER -> GeneralAssistantNode(s0)

\* the state of run r as it would be had the run been alone
Alone(r) ==
  AloneState(state[r].user_message, state[r].max_iterations,
             state[r].task_type, obs[r].responses)

\* no step changes what belongs to two runs, and what belongs to a run
\* changes in steps of that run only
OwnStepsOnly ==
  \A r \in RunIds :
    RunState(r)' # RunState(r) =>
      /\ StepOf(r)
      /\ \A q \in RunIds \ {r} : RunState(q)' = RunState(q)

\* a run that returned has the state and the result of the run alone
ReturnsAsAlone ==
  \A r \in RunIds :
    pc[r] = "done" =>
      /\ state[r] = Alone(r)
      /\ result[r] = Response(Alone(r))

\* C21 (runs are independent): with two process() calls interleaved at
\* their suspension points, every step changes the RunState of one run
\* only, the run that takes it, and a run that returns has the state and
\* returns the result that the same message, budget, category and
\* collaborator responses give a run that is alone.
C21_RunsAreIndependent == []ReturnsAsAlone /\ [][OwnStepsOnly]_vars

\* run r1 went through its sandbox call, its last steps and its return
\* while run r2, whose sandbox call came first, had not yet stored its
\* outcome; both runs saved a project of the same name
C21_Witness ==
  /\ pc["r1"] = "done"
  /\ result["r1"].success
  /\ pc["r2"] = "store"
  /\ Len(saves) = 2
  /\ saves[1].run = "r2"
  /\ saves[2].run = "r1"
  /\ result["r1"].project_path = saves[2].dir
  /\ obs["r1"].events # <<>>

\* the generator call of run r is about to be made or in progress
Generating(r) == pc[r] = "gen_call"

\* the execute_project call of run r is in progress
Executing(r) ==
  pc[r] \in {"exec_save", "exec_files", "exec_install", "exec_run",
             "exec_finally", "exec_return"}

\* C22 (strict alternation): in a run the calls are generate(1),
\* execute(1), generate(2), execute(2), ...: the i-th generation is the one
\* of iteration i and all generations but the last succeeded; an execution
\* is in progress only as the k-th call after k generations, the last of
\* them successful, with k-1 records; a generation is begun only with as
\* many executions as generations behind it, every one of them returned,
\* recorded and failed; and a run is never in two calls at once.
C22_CallsAlternate ==
  \A r \in RunIds :
    LET g == Len(GenCalls(r))
        e == obs[r].execCalls
        k == Len(Records(r))
    IN  /\ e <= g /\ g <= e + 1
        /\ k <= e /\ e <= k + 1
        /\ \A i \in 1..g :
             /\ GenCalls(r)[i].call.iteration = i
             /\ i < g => GenCalls(r)[i].success
        /\ \A i \in 1..k : Records(r)[i].iteration = i
        /\ \A i \in 1..(k - 1) : ~Records(r)[i].success
        /\ ~(Generating(r) /\ Executing(r))
        /\ Executing(r) =>
             /\ e = g
             /\ GenCalls(r)[g].success
             /\ k = e - 1
             /\ AllExecutionsFailed(r)
        /\ pc[r] = "exec" => (e = g - 1 /\ GenCalls(r)[g].success /\ k = e)
        /\ Generating(r) =>
             /\ g = e
             /\ k = e
             /\ AllExecutionsFailed(r)
             /\ state[r].iteration = g + 1

\* the second execution of a run is in progress
C22_Witness ==
  \E r \in RunIds :
    /\ pc[r] = "exec_run"
    /\ Len(GenCalls(r)) = 2
    /\ obs[r].execCalls = 2
    /\ Len(Records(r)) = 1
    /\ ~Records(r)[1].success

\* execute_project of run r returns its outcome to the node in this step
ExecutionReturns(r) == pc[r] = "exec_return" /\ pc'[r] = "store"

\* what a step does to the history of run r: the list changes only in the
\* step behind an execution call that returned, which appends one record
\* with the iteration index and the success flag, stdout and stderr of the
\* outcome that call returned; no other step changes the list
HistoryStep(r) ==
  /\ ExecutionReturns(r) => loc'[r].exec_result = ex[r].ret
  /\ pc[r] = "store" /\ pc'[r] # "store" =>
       Records(r)' =
         Append(Records(r),
                [iteration |-> state[r].iteration,
                 success |-> loc[r].exec_result.success,
                 stdout |-> loc[r].exec_result.stdout,
                 stderr |-> loc[r].exec_result.stderr])
  /\ ~(pc[r] = "store" /\ pc'[r] # "store") => Records(r)' = Records(r)

\* the records of run r are those of iterations 1..k, one for each
\* execution call that returned
HistoryInOrder(r) ==
  /\ \A i \in 1..Len(Records(r)) : Records(r)[i].iteration = i
  /\ pc[r] \in {"notify", "loop", "finalize", "return", "done"} =>
       Len(Records(r)) = obs[r].execCalls

\* C23 (append-only history): every execution call that returns, with
\* success or failure, is followed by the append of exactly one record
\* that carries the current iteration index and the outcome's success
\* flag, stdout and stderr; no step removes, reorders or changes a record;
\* the list always holds the indices 1..k in increasing order.
C23_HistoryIsAppendOnly ==
  /\ [](\A r \in RunIds : HistoryInOrder(r))
  /\ [][\A r \in RunIds : HistoryStep(r)]_vars

\* a failed and then a successful execution, both recorded
C23_Witness ==
  \E r \in RunIds :
    /\ Len(Records(r)) = 2
    /\ Records(r)[1] = [iteration |-> 1, success |-> FALSE, stdout |-> "",
                        stderr |-> "e1"]
    /\ Records(r)[2] = [iteration |-> 2, success |-> TRUE, stdout |-> "out",
                        stderr |-> ""]

\* the error part the claim asks of a repair prompt
ErrorOrMarker(previous_error) ==
  IF TextTruthy(previous_error) THEN previous_error ELSE "Not available"

\* C24 (repair prompt): the request of every generation call of an
\* iteration i > 1 is a fix prompt that embeds the user's description, the
\* stderr of the previous record as it is (the "not available" marker when
\* there is none) and the first PromptCodeLimit characters of the raw
\* output of the generation of iteration i-1.
C24_RepairPromptEmbedsPreviousOutput ==
  \A r \in RunIds :
    (Generating(r) /\ state[r].iteration > 1) =>
      LET request == GenerateCodeCall(state[r]).prompt
          last == Records(r)[Len(Records(r))]
      IN  /\ request.kind = "fix"
          /\ request.description = state[r].user_message
          /\ request.error = ErrorOrMarker(last.stderr)
          /\ request.previous_code =
               Embedded(Prefix(state[r].generated_code, PromptCodeLimit))

\* the events of the code that tell of an iteration, a generation, a
\* repair or a success
ProgressEvents ==
  {"iteration", "generating", "fixing", "generation_complete", "success"}

\* the last event run r handed to its subscriber tells of a terminal
\* failure
EndsWithFailureEvent(r) ==
  /\ obs[r].events # <<>>
  /\ obs[r].events[Len(obs[r].events)] \notin ProgressEvents

\* C25 (terminal events): when process() has returned for a coding run
\* with a subscriber, the last event the subscriber got is the success
\* event of a successful run and a terminal-failure event of a run that
\* failed (budget used up, or generation failed).
C25_TerminalEventEmitted ==
  \A r \in RunIds :
    (pc[r] = "done" /\ Coding(r) /\ loc[r].callback = "subscriber") =>
      IF result[r].success
      THEN /\ obs[r].events # <<>>
           /\ obs[r].events[Len(obs[r].events)] = "success"
      ELSE EndsWithFailureEvent(r)

\* C26 (termination for every budget): a coding run with max_iterations
\* = N >= 0 calls generation and execution at most N times, its loop
\* variable goes through 1..k with k <= N, it does not end in an error of
\* its own finalization, and when it has returned the result carries a
\* summary; with N = 0 it returns a failure without any call.
C26_EveryBudgetTerminates ==
  \A r \in RunIds :
    Coding(r) =>
      /\ Len(GenCalls(r)) <= state[r].max_iterations
      /\ obs[r].execCalls <= state[r].max_iterations
      /\ loc[r].iteration \in 0..state[r].max_iterations
      /\ Len(GenCalls(r)) \in {loc[r].iteration - 1, loc[r].iteration}
      /\ pc[r] = "raised" => obs[r].exception # "UnboundLocalError: iteration"
      /\ pc[r] = "done" =>
           /\ result[r].returned
           /\ result[r].output.summary # ""
           /\ state[r].max_iterations = 0 =>
                (~result[r].success /\ GenCalls(r) = <<>>
                 /\ obs[r].execCalls = 0)

\* the paths of a file mapping
Paths(files) == {files[i].path : i \in 1..Len(files)}

\* C27 (python entry): for a file mapping classified by the python rule
\* the start command is "python <entry>", where <entry> is a path of the
\* mapping: main.py or app.py when the mapping has a file of that name,
\* and otherwise a path that ends in .py.
C27_PythonEntryIsPythonFile ==
  (Generated /\ gen.result.success /\ gen.result.project_type = "python") =>
    \E entry \in Paths(gen.result.files) :
      /\ gen.result.start_command = "python " \o Text(entry)
      /\ IF Paths(gen.result.files) \cap PythonMainNames # {}
         THEN entry \in PythonMainNames
         ELSE EndsWith(entry, <<".", "p", "y">>)

\* C28: a server is launched with the start command of the configuration
\* the project was given, whatever the project type is: the argument list
\* of the launched process is the start command, split into its words.
C28_ServerStartedWithStartCommand ==
  \A r \in RunIds :
    ex[r].launched # None =>
      ex[r].launched = CommandWords(state[r].start_command)

\* the lines of the answer classify_task parses
AnswerLines(answer) == Split(Strip(answer.text), "\n")

\* the answer has a line that starts with "TASK_TYPE:"
HasTaskTypeLine(answer) ==
  \E k \in 1..Len(AnswerLines(answer)) :
    StartsWith(AnswerLines(answer)[k],
               <<"T", "A", "S", "K", "_", "T", "Y", "P", "E", ":">>)

\* C29: when the LLM collaborator answers with a malformed text, one
\* without a TASK_TYPE line, the router falls back to the keyword
\* classifier: category and confidence of the decision are those of the
\* keyword classification of the message (0.7 on a keyword hit, general
\* and 0.5 otherwise).
C29_FallbackOnMalformedAnswer ==
  (Classified /\ route.answer.error = None /\ ~HasTaskTypeLine(route.answer))
    => /\ route.decision.task_type =
            FallbackClassification(route.message).task_type
       /\ route.decision.confidence =
            FallbackClassification(route.message).confidence

\* execute_project of run r hands control back with a failure: a failure
\* outcome, or an exception
ExecutionFailed(r) ==
  pc[r] = "exec_return" /\ (ex[r].raised # None \/ ~ex[r].ret.success)

\* C30: no sandbox is leaked by a failed execution: when execute_project
\* ends with a failure after it created its sandbox (file upload error,
\* install failure, server start failure), that sandbox has been torn down
\* by the time control is handed back.
C30_FailedExecutionLeavesNoSandbox ==
  \A r \in RunIds :
    (ExecutionFailed(r) /\ ex[r].sandbox # 0) =>
      sandboxes[ex[r].sandbox] = "killed"

====================================================================
